---- MODULE Spec2Model ----
(***************************************************************************)
(* Rental status-transition engine of the Paramata inventory system:       *)
(* the admin rentals routes (collection PATCH and POST, per-id PATCH and   *)
(* DELETE) acting on the Prisma store (Item, Rental, RentalStatusLog,      *)
(* ItemHistory, ActivityLog).  Every request is a process that first reads *)
(* the store outside any transaction, then runs prisma.$transaction, then  *)
(* its post-commit code, which calls the reminder scheduler and the        *)
(* notification dispatcher (Reminder, Notification).                       *)
(***************************************************************************)
EXTENDS Integers, Sequences, FiniteSets, TLC

\* ---------------------------------------------------------------- bounds
MaxOps     == 2      \* requests started in one behaviour
MaxRentals == 2      \* rental rows that can exist

Procs     == {"h1", "h2"}          \* concurrent request handlers
RentalIds == 1..MaxRentals

\* ----------------------------------------------------------- schema enums
ItemStatus    == {"AVAILABLE", "IN_CALIBRATION", "RENTED", "IN_MAINTENANCE"}
RequestStatus == {"PENDING", "APPROVED", "REJECTED", "COMPLETED", "CANCELLED"}

NULL      == "null"
NONE      == "NONE"                \* a body field that was not sent
NoDate    == 0                     \* a DateTime? column holding null
FarDate   == MaxOps + 3            \* an endDate no request of a run reaches
Items     == {"SN-001", "SN-002"}
Callers   == {"admin", "user"}     \* who getUserFromRequest / verifyAdmin finds
Customers == {"c1"}

\* The transition table of the design (section 4.1); no route consults it.
Terminal == {"COMPLETED", "REJECTED", "CANCELLED"}
Legal    == { <<"PENDING", "APPROVED">>, <<"PENDING", "REJECTED">>,
              <<"PENDING", "CANCELLED">>, <<"APPROVED", "COMPLETED">>,
              <<"APPROVED", "CANCELLED">> }

VARIABLES
    items,        \* serialNumber -> ItemStatus
    rentals,      \* id -> Rental row, ids in use only
    statusLogs,   \* sequence of RentalStatusLog rows
    itemHistory,  \* sequence of ItemHistory rows
    activityLogs, \* sequence of ActivityLog rows
    req,          \* per handler: position, inputs, what it read, its response
    now,          \* the clock read by new Date()
    reminders,    \* sequence of Reminder rows; a row's id is its position
    notifications,\* sequence of Notification rows
    calibrations, \* id -> Calibration row, ids in use only
    client,       \* the browser: the state and refs of the component shown
    customers     \* id -> name of the Customer rows

store == <<items, rentals, statusLogs, itemHistory, activityLogs, calibrations,
           customers>>
svc   == <<reminders, notifications>>
vars  == <<items, rentals, statusLogs, itemHistory, activityLogs, req, now,
           reminders, notifications, calibrations, client, customers>>

\* The store as one value, the way a transaction sees it.
DB == [items |-> items, rentals |-> rentals, statusLogs |-> statusLogs,
       itemHistory |-> itemHistory, activityLogs |-> activityLogs]

\* ------------------------------------------------------------------ rows
Rental(status, returnDate, itemSerial, userId, endDate) ==
    [status |-> status, returnDate |-> returnDate,
     itemSerial |-> itemSerial, userId |-> userId, endDate |-> endDate]

RentalStatusLog(rentalId, status, userId) ==
    [rentalId |-> rentalId, status |-> status, userId |-> userId]

ItemHistory(itemSerial, action, relatedId, endDate) ==
    [itemSerial |-> itemSerial, action |-> action,
     relatedId |-> relatedId, endDate |-> endDate]

ActivityLog(type, userId, itemSerial, rentalId, affectedUserId, customerId) ==
    [type |-> type, userId |-> userId, itemSerial |-> itemSerial,
     rentalId |-> rentalId, affectedUserId |-> affectedUserId,
     customerId |-> customerId]

Reminder(type, status, dueDate, reminderDate, rentalId, userId) ==
    [type |-> type, status |-> status, dueDate |-> dueDate,
     reminderDate |-> reminderDate, rentalId |-> rentalId, userId |-> userId]

Notification(reminderId, userId, isRead, shouldPlaySound) ==
    [reminderId |-> reminderId, userId |-> userId, isRead |-> isRead,
     shouldPlaySound |-> shouldPlaySound]

\* The NotificationProvider as it is mounted: useState and useRef defaults.
NoSound == 0 - 1                   \* lastSoundPlayedTime before any sound
Provider ==
    [notifications |-> << >>, unreadCount |-> 0, isFetching |-> FALSE,
     processedNotifications |-> {}, toastShownCount |-> 0,
     lastSoundPlayedTime |-> NoSound,
     timers |-> {}, playing |-> {}, toasts |-> << >>, toastsAtReset |-> 0,
     resetDone |-> FALSE, calls |-> 0]

\* --------------------------------------------------- transaction writes
\* One statement of a transaction body, applied to the transaction's view.
ApplyWrite(db, w) ==
    CASE w.k = "rental.update" ->
           [db EXCEPT !.rentals[w.id] =
               [@ EXCEPT !.status     = IF w.status = NONE THEN @ ELSE w.status,
                         !.returnDate = IF w.returnDate = NoDate THEN @
                                        ELSE w.returnDate]]
      [] w.k = "rental.create" ->
           [db EXCEPT !.rentals = (w.id :> w.row) @@ @]
      [] w.k = "statusLog.create" ->
           [db EXCEPT !.statusLogs =
               Append(@, RentalStatusLog(w.rentalId, w.status, w.userId))]
      [] w.k = "itemHistory.updateMany" ->
           [db EXCEPT !.itemHistory =
               [i \in DOMAIN @ |->
                   IF /\ @[i].itemSerial = w.itemSerial
                      /\ @[i].action = "RENTED"
                      /\ @[i].relatedId = w.relatedId
                      /\ @[i].endDate = NoDate
                   THEN [@[i] EXCEPT !.endDate = w.endDate]
                   ELSE @[i]]]
      [] w.k = "item.update" ->
           [db EXCEPT !.items[w.serialNumber] = w.status]
      [] w.k = "activityLog.create" ->
           [db EXCEPT !.activityLogs =
               Append(@, w.row)]

RECURSIVE ApplyAll(_, _)
ApplyAll(db, ws) ==
    IF ws = <<>> THEN db ELSE ApplyAll(ApplyWrite(db, Head(ws)), Tail(ws))

\* A store without rollback: the statements before the failing one stay.
TransactionNoRollback(db, ws, failAt) ==
    IF failAt = 0 THEN ApplyAll(db, ws)
    ELSE ApplyAll(db, SubSeq(ws, 1, failAt - 1))

\* prisma.$transaction: the body's statements in order; a statement that
\* throws (failAt = its position, 0 = none) rolls all of them back.
Transaction(db, ws, failAt) ==
    IF failAt = 0 THEN ApplyAll(db, ws) ELSE db

\* ------------------------------------------- reminders, notifications
\* The scheduler and the dispatcher work on the two tables as one value.
SVC == [reminders |-> reminders, notifications |-> notifications]

Max(a, b) == IF a >= b THEN a ELSE b

\* A rental's reminder fires LeadTime before its endDate, floored at now.
LeadTime == 1
RentalReminderDate(endDate, t) == Max(endDate - LeadTime, t)

NoReminder == 0       \* Notification.reminderId holding null

\* findFirst: the oldest non-ACKNOWLEDGED reminder of the type for the record.
FindReminder(rs, type, rentalId) ==
    LET found == {i \in DOMAIN rs : /\ rs[i].type = type
                                    /\ rs[i].rentalId = rentalId
                                    /\ rs[i].status # "ACKNOWLEDGED"}
    IN  IF found = {} THEN NoReminder
        ELSE CHOOSE i \in found : \A j \in found : i <= j

\* Update the row that was found, or insert when none was found.
UpsertReminder(rs, found, row) ==
    IF found = NoReminder THEN Append(rs, row)
    ELSE [rs EXCEPT ![found] = [@ EXCEPT !.dueDate = row.dueDate,
                                         !.reminderDate = row.reminderDate]]

RentalReminder(db, id, t) ==
    Reminder("RENTAL", "PENDING", db.rentals[id].endDate,
             RentalReminderDate(db.rentals[id].endDate, t), id,
             db.rentals[id].userId)

\* scheduleReminder for a rental: no endDate, no reminder.
scheduleReminder(s, db, id, t) ==
    IF db.rentals[id].endDate = NoDate THEN s
    ELSE [s EXCEPT !.reminders =
            UpsertReminder(@, FindReminder(@, "RENTAL", id),
                           RentalReminder(db, id, t))]

HasUnread(ns, reminderId) ==
    \E i \in DOMAIN ns : ns[i].reminderId = reminderId /\ ~ns[i].isRead

UnreadOf(ns, reminderId) ==
    {i \in DOMAIN ns : ns[i].reminderId = reminderId /\ ~ns[i].isRead}

\* The instant path: make sure the reminder exists, then materialize a
\* notification that plays a sound.  thrownAt = 1: it throws before it wrote
\* anything; 2: it throws between the two writes; 0: it returns.
createInstantNotificationForReminder(s, db, id, t, thrownAt) ==
    LET scheduled == scheduleReminder(s, db, id, t)
        reminderId == FindReminder(scheduled.reminders, "RENTAL", id)
    IN  CASE thrownAt = 1 -> s
          [] thrownAt = 2 -> scheduled
          [] OTHER -> [scheduled EXCEPT !.notifications =
                         Append(@, Notification(reminderId,
                                                db.rentals[id].userId,
                                                FALSE, TRUE))]

\* handleRentalStatusChange: an approved rental gets its reminder scheduled.
handleRentalStatusChange(s, db, id, status, t, thrownAt) ==
    IF status = "APPROVED" /\ thrownAt = 0
    THEN scheduleReminder(s, db, id, t)
    ELSE s

\* ------------------------------------------------------------- requests
\* What findUnique({ include: { item: true } }) returned.
Found(db, id) ==
    [status      |-> db.rentals[id].status,
     returnDate  |-> db.rentals[id].returnDate,
     itemSerial  |-> db.rentals[id].itemSerial,
     userId      |-> db.rentals[id].userId,
     itemStatus  |-> db.items[db.rentals[id].itemSerial]]

NoCur == [status |-> NULL, returnDate |-> NoDate, itemSerial |-> NULL,
          userId |-> NULL, itemStatus |-> NULL]

Idle == [pc |-> "idle", op |-> NULL, caller |-> NULL, id |-> 0, status |-> NONE,
         itemSerial |-> NULL, customerId |-> NULL, cur |-> NoCur,
         returnDate |-> NoDate, endDate |-> NoDate, res |-> NULL,
         notified |-> NULL]

\* A guard that lets every caller through.
verifyAnyone(caller) == TRUE

\* verifyAdmin of the per-id routes, and `user && isAdmin(user)` of the
\* collection routes: the caller is an authenticated admin. The caller "user"
\* stands for everyone else, signed in or not.
verifyAdmin(caller) == caller = "admin"

CanStart(p) ==
    /\ req[p].pc \in {"idle", "done"}
    /\ now < MaxOps

\* An early return: the handler answers res before it wrote anything (its
\* locals are gone with it; the record keeps the operation and the caller).
Reject(p, op, caller, res) ==
    /\ req' = [req EXCEPT ![p] = [Idle EXCEPT !.pc = "done", !.op = op,
                                              !.caller = caller, !.res = res]]
    /\ UNCHANGED <<client, store, svc>>

\* A request ends with the response res; nothing is written.
Respond(p, r, res) ==
    /\ req' = [req EXCEPT ![p] = [r EXCEPT !.pc = "done", !.res = res]]
    /\ UNCHANGED <<client, store, svc>>

\* The store after a transaction body ran, the id of the row the transaction
\* returned, and the handler's next position.
Commit(p, ws, failAt, next, res, id) ==
    LET db == Transaction(DB, ws, failAt) IN
    /\ items' = db.items
    /\ rentals' = db.rentals
    /\ statusLogs' = db.statusLogs
    /\ itemHistory' = db.itemHistory
    /\ activityLogs' = db.activityLogs
    /\ req' = [req EXCEPT ![p] =
                 IF failAt = 0
                 THEN [@ EXCEPT !.pc = next, !.res = res, !.id = id]
                 ELSE [@ EXCEPT !.pc = "done", !.res = "500"]]
    /\ UNCHANGED <<now, svc, calibrations, client, customers>>

\* ------------------------------------------ collection route: PATCH
\* The same table with the APPROVED branch left out.
PatchNewItemStatusNoApprove(status) ==
    CASE status = "COMPLETED" -> "AVAILABLE"
      [] status = "REJECTED"  -> "AVAILABLE"
      [] OTHER                -> NULL

PatchNewItemStatus(status) ==
    CASE status = "APPROVED"  -> "RENTED"
      [] status = "COMPLETED" -> "AVAILABLE"
      [] status = "REJECTED"  -> "AVAILABLE"
      [] OTHER                -> NULL

\* The statements of the transaction body, in order; t is new Date().
PatchWrites(r, t) ==
       << [k |-> "rental.update", id |-> r.id, status |-> r.status,
           returnDate |-> IF r.status = "COMPLETED" /\ r.cur.returnDate = NoDate
                          THEN t ELSE NoDate],
          [k |-> "statusLog.create", rentalId |-> r.id, status |-> r.status,
           userId |-> r.caller] >>
    \o (IF r.status = "COMPLETED"
        THEN << [k |-> "itemHistory.updateMany", itemSerial |-> r.cur.itemSerial,
                 relatedId |-> r.id, endDate |-> t] >>
        ELSE << >>)
    \o (IF PatchNewItemStatus(r.status) # NULL
        THEN << [k |-> "item.update", serialNumber |-> r.cur.itemSerial,
                 status |-> PatchNewItemStatus(r.status)] >>
        ELSE << >>)
    \o << [k |-> "activityLog.create",
           row |-> ActivityLog("RENTAL_UPDATED", r.caller, r.cur.itemSerial,
                               r.id, r.cur.userId, NULL)] >>

\* Authorization, body validation and the read before the transaction.
PatchStart(p) ==
    /\ CanStart(p)
    /\ now' = now + 1
    /\ \E caller \in Callers, id \in RentalIds, status \in RequestStatus \cup {NONE} :
         LET r == [Idle EXCEPT !.op = "PATCH", !.caller = caller, !.id = id,
                               !.status = status] IN
         IF ~verifyAdmin(caller) THEN Reject(p, "PATCH", caller, "401")
         ELSE IF status = NONE
              THEN Reject(p, "PATCH", caller, "400 Missing required fields")
         ELSE IF id \notin DOMAIN rentals THEN Reject(p, "PATCH", caller, "404")
         ELSE /\ req' = [req EXCEPT ![p] =
                           [r EXCEPT !.pc = "tx", !.cur = Found(DB, id)]]
              /\ UNCHANGED <<client, store, svc>>

PatchTx(p) ==
    /\ req[p].pc = "tx"
    /\ req[p].op = "PATCH"
    /\ LET ws == PatchWrites(req[p], now) IN
       \E failAt \in 0..Len(ws) :
           Commit(p, ws, failAt, "post", NULL, req[p].id)

\* The response of a route whose reminder call threw into its catch.
AfterNotifyFailing(thrownAt) == IF thrownAt = 0 THEN "200" ELSE "500"

\* The response of a route after its reminder call, thrown or not: the catch
\* only logs.
AfterNotify(thrownAt) == "200"

Notified(thrownAt) == IF thrownAt = 0 THEN "ok" ELSE "error"

\* After the commit: the reminder call of an approval is fired and not
\* awaited, and the response is sent.
PatchRespond(p) ==
    /\ req[p].pc = "post"
    /\ req[p].op = "PATCH"
    /\ req' = [req EXCEPT ![p] =
                 [@ EXCEPT !.pc = IF req[p].status = "APPROVED" THEN "bg"
                                  ELSE "done",
                           !.res = "200"]]
    /\ UNCHANGED <<client, store, svc, now>>

\* The promise of the reminder call settles; its .catch only logs.
PatchNotify(p) ==
    /\ req[p].pc = "bg"
    /\ req[p].op = "PATCH"
    /\ \E thrownAt \in 0..2 :
         LET s == createInstantNotificationForReminder(SVC, DB, req[p].id, now,
                                                       thrownAt) IN
         /\ reminders' = s.reminders
         /\ notifications' = s.notifications
         /\ req' = [req EXCEPT ![p] =
                      [@ EXCEPT !.pc = "done", !.notified = Notified(thrownAt)]]
    /\ UNCHANGED <<client, store, now>>

\* ------------------------------------------- collection route: POST
\* ids are uuids; the model hands out the next unused number.
NewId(db) == Cardinality(DOMAIN db.rentals) + 1

\* The same statements without the item update.
PostWritesNoItemUpdate(r, id) ==
    << [k |-> "rental.create", id |-> id,
        row |-> Rental("APPROVED", NoDate, r.itemSerial, r.caller, r.endDate)],
       [k |-> "statusLog.create", rentalId |-> id, status |-> "APPROVED",
        userId |-> r.caller],
       [k |-> "activityLog.create",
        row |-> ActivityLog("RENTAL_CREATED", r.caller, r.itemSerial, id,
                            r.caller, r.customerId)] >>

\* The same statements without the status-log row.
PostWritesNoStatusLog(r, id) ==
    << [k |-> "rental.create", id |-> id,
        row |-> Rental("APPROVED", NoDate, r.itemSerial, r.caller, r.endDate)],
       [k |-> "item.update", serialNumber |-> r.itemSerial, status |-> "RENTED"],
       [k |-> "activityLog.create",
        row |-> ActivityLog("RENTAL_CREATED", r.caller, r.itemSerial, id,
                            r.caller, r.customerId)] >>

PostWrites(r, id) ==
    << [k |-> "rental.create", id |-> id,
        row |-> Rental("APPROVED", NoDate, r.itemSerial, r.caller, r.endDate)],
       [k |-> "statusLog.create", rentalId |-> id, status |-> "APPROVED",
        userId |-> r.caller],
       [k |-> "item.update", serialNumber |-> r.itemSerial, status |-> "RENTED"],
       [k |-> "activityLog.create",
        row |-> ActivityLog("RENTAL_CREATED", r.caller, r.itemSerial, id,
                            r.caller, r.customerId)] >>

\* A check that only looks for a rental in progress.
ItemNotRented(status) == status # "RENTED"

\* The availability check of the create route.
ItemAvailable(status) == status = "AVAILABLE"

\* Rows that exist or are about to be created by a POST past its checks.
RentalsClaimed ==
    Cardinality(DOMAIN rentals)
    + Cardinality({q \in Procs : req[q].op = "POST" /\ req[q].pc = "tx"})

\* Authorization, body validation, the availability check and the customer
\* lookup, all before the transaction.
PostStart(p) ==
    /\ CanStart(p)
    /\ RentalsClaimed < MaxRentals
    /\ now' = now + 1
    /\ \E caller \in Callers, itemSerial \in Items \cup {NULL, "SN-404"},
          customerId \in Customers \cup {NULL, "c-404"},
          endDate \in {NoDate, FarDate} :
         LET r == [Idle EXCEPT !.op = "POST", !.caller = caller,
                               !.itemSerial = itemSerial,
                               !.customerId = customerId,
                               !.endDate = endDate] IN
         IF ~verifyAdmin(caller) THEN Reject(p, "POST", caller, "401")
         ELSE IF itemSerial = NULL
              THEN Reject(p, "POST", caller, "400 Missing required fields")
         ELSE IF itemSerial \notin DOMAIN items THEN Reject(p, "POST", caller, "404")
         ELSE IF ~ItemAvailable(items[itemSerial])
              THEN Respond(p, [r EXCEPT !.customerId = NULL, !.endDate = NoDate],
                           "400 Item is not available for rental")
         ELSE IF customerId # NULL /\ customerId \notin Customers
              THEN Reject(p, "POST", caller, "404")
         ELSE /\ req' = [req EXCEPT ![p] =
                           [r EXCEPT !.pc = "tx",
                                     !.cur = [NoCur EXCEPT
                                                !.itemSerial = itemSerial,
                                                !.itemStatus = items[itemSerial]]]]
              /\ UNCHANGED <<client, store, svc>>

PostTx(p) ==
    /\ req[p].pc = "tx"
    /\ req[p].op = "POST"
    /\ LET ws == PostWrites(req[p], NewId(DB)) IN
       \E failAt \in 0..Len(ws) :
           Commit(p, ws, failAt, "post", NULL, NewId(DB))

\* After the commit: the reminder call is awaited inside its own try/catch,
\* then the response is sent.
PostRespond(p) ==
    /\ req[p].pc = "post"
    /\ req[p].op = "POST"
    /\ \E thrownAt \in 0..2 :
         LET s == createInstantNotificationForReminder(SVC, DB, req[p].id, now,
                                                       thrownAt) IN
         /\ reminders' = s.reminders
         /\ notifications' = s.notifications
         /\ req' = [req EXCEPT ![p] =
                      [@ EXCEPT !.pc = "done", !.res = AfterNotify(thrownAt),
                                !.notified = Notified(thrownAt)]]
    /\ UNCHANGED <<client, store, now>>

\* --------------------------------------------- per-id route: PATCH
PatchIdNewItemStatus(status) ==
    CASE status = "APPROVED"  -> "RENTED"
      [] status = "COMPLETED" -> "AVAILABLE"
      [] status \in {"REJECTED", "CANCELLED"} -> "AVAILABLE"
      [] OTHER                -> NULL

\* updateData.returnDate is computed before the transaction, at time t.
PatchIdReturnDate(status, cur, t) ==
    IF status = "COMPLETED" /\ cur.returnDate = NoDate THEN t ELSE NoDate

PatchIdWrites(r) ==
       << [k |-> "rental.update", id |-> r.id, status |-> r.status,
           returnDate |-> r.returnDate] >>
    \o (IF r.status # NONE
        THEN    << [k |-> "statusLog.create", rentalId |-> r.id,
                    status |-> r.status, userId |-> r.caller] >>
             \o (IF PatchIdNewItemStatus(r.status) # NULL
                 THEN << [k |-> "item.update", serialNumber |-> r.cur.itemSerial,
                          status |-> PatchIdNewItemStatus(r.status)] >>
                 ELSE << >>)
             \o << [k |-> "activityLog.create",
                    row |-> ActivityLog("RENTAL_UPDATED", r.caller,
                                        r.cur.itemSerial, r.id, r.cur.userId,
                                        NULL)] >>
        ELSE << [k |-> "activityLog.create",
                 row |-> ActivityLog("RENTAL_UPDATED", r.caller,
                                     r.cur.itemSerial, r.id, r.cur.userId,
                                     NULL)] >>)

PatchIdStart(p) ==
    /\ CanStart(p)
    /\ now' = now + 1
    /\ \E caller \in Callers, id \in RentalIds, status \in RequestStatus \cup {NONE} :
         LET r == [Idle EXCEPT !.op = "PATCH_ID", !.caller = caller, !.id = id,
                               !.status = status] IN
         IF ~verifyAdmin(caller) THEN Reject(p, "PATCH_ID", caller, "401")
         ELSE IF id \notin DOMAIN rentals THEN Reject(p, "PATCH_ID", caller, "404")
         ELSE /\ req' = [req EXCEPT ![p] =
                           [r EXCEPT !.pc = "tx", !.cur = Found(DB, id),
                                     !.returnDate =
                                        PatchIdReturnDate(status, Found(DB, id),
                                                          now + 1)]]
              /\ UNCHANGED <<client, store, svc>>

PatchIdTx(p) ==
    /\ req[p].pc = "tx"
    /\ req[p].op = "PATCH_ID"
    /\ LET ws == PatchIdWrites(req[p]) IN
       \E failAt \in 0..Len(ws) :
           Commit(p, ws, failAt, "post", NULL, req[p].id)

\* logRentalActivity of the activity logger: one more ActivityLog row, written
\* outside the transaction.
logRentalActivity(db, userId, type, rentalId, itemSerial) ==
    [db EXCEPT !.activityLogs =
        Append(@, ActivityLog(type, userId, itemSerial, rentalId, NULL, NULL))]

\* After the commit: the awaited logRentalActivity, whose exception reaches the
\* route's catch, then the reminder call inside its own try/catch.
PatchIdPost(p) ==
    /\ req[p].pc = "post"
    /\ req[p].op = "PATCH_ID"
    /\ UNCHANGED <<items, rentals, statusLogs, itemHistory, calibrations, now,
                   client, customers>>
    /\ \E thrown \in BOOLEAN :
         IF thrown
         THEN /\ req' = [req EXCEPT ![p] = [@ EXCEPT !.pc = "done", !.res = "500"]]
              /\ UNCHANGED <<activityLogs, svc>>
         ELSE /\ activityLogs' =
                   logRentalActivity(DB, req[p].caller, "RENTAL_UPDATED",
                                     req[p].id, req[p].cur.itemSerial).activityLogs
              /\ IF req[p].status = "APPROVED"
                 THEN \E thrownAt \in 0..1 :
                        LET s == handleRentalStatusChange(SVC, DB, req[p].id,
                                                          "APPROVED", now,
                                                          thrownAt) IN
                        /\ reminders' = s.reminders
                        /\ notifications' = s.notifications
                        /\ req' = [req EXCEPT ![p] =
                                     [@ EXCEPT !.pc = "done",
                                               !.res = AfterNotify(thrownAt),
                                               !.notified = Notified(thrownAt)]]
                 ELSE /\ req' = [req EXCEPT ![p] =
                                   [@ EXCEPT !.pc = "done", !.res = "200"]]
                      /\ UNCHANGED svc

\* -------------------------------------------- per-id route: DELETE
\* The same statements with the activity log written first.
DeleteWritesActivityFirst(r) ==
       << [k |-> "activityLog.create",
           row |-> ActivityLog("RENTAL_UPDATED", r.caller, r.cur.itemSerial,
                               r.id, r.cur.userId, NULL)],
          [k |-> "rental.update", id |-> r.id, status |-> "CANCELLED",
           returnDate |-> NoDate],
          [k |-> "statusLog.create", rentalId |-> r.id, status |-> "CANCELLED",
           userId |-> r.caller] >>
    \o (IF r.cur.itemStatus = "RENTED"
        THEN << [k |-> "item.update", serialNumber |-> r.cur.itemSerial,
                 status |-> "AVAILABLE"] >>
        ELSE << >>)

DeleteWrites(r) ==
       << [k |-> "rental.update", id |-> r.id, status |-> "CANCELLED",
           returnDate |-> NoDate],
          [k |-> "statusLog.create", rentalId |-> r.id, status |-> "CANCELLED",
           userId |-> r.caller] >>
    \o (IF r.cur.itemStatus = "RENTED"
        THEN << [k |-> "item.update", serialNumber |-> r.cur.itemSerial,
                 status |-> "AVAILABLE"] >>
        ELSE << >>)
    \o << [k |-> "activityLog.create",
           row |-> ActivityLog("RENTAL_UPDATED", r.caller, r.cur.itemSerial,
                               r.id, r.cur.userId, NULL)] >>

DeleteStart(p) ==
    /\ CanStart(p)
    /\ now' = now + 1
    /\ \E caller \in Callers, id \in RentalIds :
         LET r == [Idle EXCEPT !.op = "DELETE", !.caller = caller, !.id = id,
                               !.status = "CANCELLED"] IN
         IF ~verifyAdmin(caller) THEN Reject(p, "DELETE", caller, "401")
         ELSE IF id \notin DOMAIN rentals THEN Reject(p, "DELETE", caller, "404")
         ELSE /\ req' = [req EXCEPT ![p] =
                           [r EXCEPT !.pc = "tx", !.cur = Found(DB, id)]]
              /\ UNCHANGED <<client, store, svc>>

\* The transaction and the response that follows it directly.
DeleteTx(p) ==
    /\ req[p].pc = "tx"
    /\ req[p].op = "DELETE"
    /\ LET ws == DeleteWrites(req[p]) IN
       \E failAt \in 0..Len(ws) :
           Commit(p, ws, failAt, "done", "200", req[p].id)

\* ------------------------------------------------------- specification
\* The store when the admin routes start serving: SN-001 and SN-002 exist,
\* SN-002 being away for calibration; rental 1 is absent, or was requested by
\* user u1 for SN-001 and is still PENDING, or is APPROVED with the item handed
\* out and its ItemHistory row open.
InitStores ==
    { [items |-> [i \in Items |-> IF i = "SN-001" THEN "AVAILABLE" ELSE "IN_CALIBRATION"],
       rentals |-> << >>, statusLogs |-> << >>, itemHistory |-> << >>,
       activityLogs |-> << >>] }
    \cup
    { [items |-> [i \in Items |-> IF i = "SN-001" THEN "AVAILABLE" ELSE "IN_CALIBRATION"],
       rentals |-> (1 :> Rental("PENDING", NoDate, "SN-001", "u1", FarDate)),
       statusLogs |-> << RentalStatusLog(1, "PENDING", "u1") >>,
       itemHistory |-> << >>,
       activityLogs |-> << >>] }
    \cup
    { [items |-> [i \in Items |-> IF i = "SN-001" THEN "RENTED" ELSE "IN_CALIBRATION"],
       rentals |-> (1 :> Rental("APPROVED", NoDate, "SN-001", "u1", FarDate)),
       statusLogs |-> << RentalStatusLog(1, "PENDING", "u1"),
                         RentalStatusLog(1, "APPROVED", "admin") >>,
       itemHistory |-> << ItemHistory("SN-001", "RENTED", 1, NoDate) >>,
       activityLogs |-> << >>] }

Init ==
    /\ \E db \in InitStores :
         /\ items = db.items
         /\ rentals = db.rentals
         /\ statusLogs = db.statusLogs
         /\ itemHistory = db.itemHistory
         /\ activityLogs = db.activityLogs
    /\ req = [p \in Procs |-> Idle]
    /\ now = 0
    /\ reminders = << >>
    /\ notifications = << >>
    /\ calibrations = << >>
    /\ client = Provider
    /\ customers = << >>

Next ==
    \E p \in Procs :
        \/ PatchStart(p)   \/ PatchTx(p)   \/ PatchRespond(p) \/ PatchNotify(p)
        \/ PostStart(p)    \/ PostTx(p)    \/ PostRespond(p)
        \/ PatchIdStart(p) \/ PatchIdTx(p) \/ PatchIdPost(p)
        \/ DeleteStart(p)  \/ DeleteTx(p)

Spec == Init /\ [][Next]_vars

\* ============================================ scheduler and dispatcher
\* The reminder scheduler and the notification dispatcher at the grain of
\* their store accesses: every find, insert and update is a step of its own.
\* Workers are the cron route's runs, forced by each connected client's
\* 45-second poll, and the reminder calls that approvals leave behind.
MaxTime  == 2
Sweepers == {"s1", "s2"}
Tasks    == {"t1", "t2"}
Workers  == Sweepers \cup Tasks

NearDate == LeadTime + 1        \* an endDate whose reminder falls due at 1
LateDate == MaxTime + LeadTime + 1   \* an endDate whose reminder never does

WorkerIdle == [pc |-> "idle", op |-> NULL, id |-> 0, due |-> << >>,
               cur |-> NoReminder, unread |-> FALSE, created |-> 0,
               failed |-> 0]

\* A query that forgets the date.
IsDueAnyDate(r, t) == r.status = "PENDING"

\* The sweep's query: PENDING reminders whose reminderDate has come.
IsDue(r, t) == r.status = "PENDING" /\ r.reminderDate <= t

DueReminders(rs, t) ==
    SelectSeq([i \in 1..Len(rs) |-> i], LAMBDA i : IsDue(rs[i], t))

\* The sweep's look for an unread notification of the reminder.
SweepFindsUnreadNever(ns, reminderId) == FALSE

SweepFindsUnread(ns, reminderId) == HasUnread(ns, reminderId)

Tick ==
    /\ now < MaxTime
    /\ now' = now + 1
    /\ UNCHANGED <<client, store, svc, req>>

\* GET /api/cron/reminders?force=true: the query for due reminders.
SweepStart(w) ==
    /\ req[w].pc = "idle"
    /\ req' = [req EXCEPT ![w] =
                 [WorkerIdle EXCEPT !.pc = "next", !.op = "SWEEP",
                                    !.due = DueReminders(reminders, now)]]
    /\ UNCHANGED <<client, store, svc, now>>

\* For the next due reminder: is there an unread notification tied to it?
SweepCheck(w) ==
    /\ req[w].pc = "next"
    /\ req[w].due # << >>
    /\ req' = [req EXCEPT ![w] =
                 [@ EXCEPT !.pc = "write", !.cur = Head(req[w].due),
                           !.unread = SweepFindsUnread(notifications,
                                                       Head(req[w].due))]]
    /\ UNCHANGED <<client, store, svc, now>>

\* Materialize the notification unless an unread one was found.
SweepCreate(w) ==
    /\ req[w].pc = "write"
    /\ IF req[w].unread
       THEN /\ UNCHANGED notifications
            /\ req' = [req EXCEPT ![w] = [@ EXCEPT !.pc = "mark"]]
       ELSE /\ notifications' =
                 Append(notifications,
                        Notification(req[w].cur, reminders[req[w].cur].userId,
                                     FALSE, FALSE))
            /\ req' = [req EXCEPT ![w] =
                         [@ EXCEPT !.pc = "mark", !.created = @ + 1]]
    /\ UNCHANGED <<client, store, reminders, now>>

\* A sweep that goes on without advancing the reminder.
SweepMarkKeepsPending(w) ==
    /\ req[w].pc = "mark"
    /\ req' = [req EXCEPT ![w] = [@ EXCEPT !.pc = "next", !.due = Tail(@)]]
    /\ UNCHANGED <<client, store, svc, now>>

\* Advance the reminder to SENT and go on with the rest of the list.
SweepMark(w) ==
    /\ req[w].pc = "mark"
    /\ reminders' = [reminders EXCEPT ![req[w].cur].status = "SENT"]
    /\ req' = [req EXCEPT ![w] = [@ EXCEPT !.pc = "next", !.due = Tail(@)]]
    /\ UNCHANGED <<client, store, notifications, now>>

\* The list is done: the route answers { created }.
SweepEnd(w) ==
    /\ req[w].pc = "next"
    /\ req[w].due = << >>
    /\ req' = [req EXCEPT ![w] = [@ EXCEPT !.pc = "idle"]]
    /\ UNCHANGED <<client, store, svc, now>>

SweepStep(w) ==
    \/ SweepStart(w) \/ SweepCheck(w) \/ SweepCreate(w)
    \/ SweepMark(w)  \/ SweepEnd(w)

\* A reminder call left behind by an approval of rental id: the instant path
\* of the collection route or the scheduling of the per-id route.
TaskStart(t) ==
    /\ req[t].pc = "idle"
    /\ \E op \in {"INSTANT", "SCHEDULE"}, id \in DOMAIN rentals :
         /\ rentals[id].status = "APPROVED"
         /\ req' = [req EXCEPT ![t] =
                      [WorkerIdle EXCEPT !.pc = "find", !.op = op, !.id = id]]
    /\ UNCHANGED <<client, store, svc, now>>

\* scheduleReminder looks for the rental's reminder.
TaskFind(t) ==
    /\ req[t].pc = "find"
    /\ req' = [req EXCEPT ![t] =
                 [@ EXCEPT !.pc = "upsert",
                           !.cur = FindReminder(reminders, "RENTAL", req[t].id)]]
    /\ UNCHANGED <<client, store, svc, now>>

\* scheduleReminder updates the row it found or inserts a new one.
TaskUpsert(t) ==
    /\ req[t].pc = "upsert"
    /\ reminders' = UpsertReminder(reminders, req[t].cur,
                                   RentalReminder(DB, req[t].id, now))
    /\ req' = [req EXCEPT ![t] =
                 [@ EXCEPT !.pc = IF req[t].op = "INSTANT" THEN "notify"
                                  ELSE "done",
                           !.cur = IF req[t].cur = NoReminder
                                   THEN Len(reminders) + 1 ELSE req[t].cur]]
    /\ UNCHANGED <<client, store, notifications, now>>

\* The instant path materializes its notification, with sound.
TaskNotify(t) ==
    /\ req[t].pc = "notify"
    /\ notifications' =
         Append(notifications,
                Notification(req[t].cur, rentals[req[t].id].userId, FALSE, TRUE))
    /\ req' = [req EXCEPT ![t] = [@ EXCEPT !.pc = "done", !.created = 1]]
    /\ UNCHANGED <<client, store, reminders, now>>

TaskStep(t) ==
    \/ TaskStart(t) \/ TaskFind(t) \/ TaskUpsert(t) \/ TaskNotify(t)

\* The store the dispatcher runs on: rental 1 on SN-001 ends soon, rental 2 on
\* SN-002 late; both are APPROVED.
DispatchStore ==
    [items |-> [i \in Items |-> "RENTED"],
     rentals |-> (1 :> Rental("APPROVED", NoDate, "SN-001", "u1", NearDate))
                 @@ (2 :> Rental("APPROVED", NoDate, "SN-002", "u2", LateDate)),
     statusLogs |-> << RentalStatusLog(1, "APPROVED", "admin"),
                       RentalStatusLog(2, "APPROVED", "admin") >>,
     itemHistory |-> << >>,
     activityLogs |-> << >>]

\* Rental 2 has its reminder; rental 1 has none yet, or has it, with or
\* without the unread notification of the instant path.
DispatchInit ==
    /\ items = DispatchStore.items
    /\ rentals = DispatchStore.rentals
    /\ statusLogs = DispatchStore.statusLogs
    /\ itemHistory = DispatchStore.itemHistory
    /\ activityLogs = DispatchStore.activityLogs
    /\ now = 0
    /\ req = [w \in Workers |-> WorkerIdle]
    /\ \E s \in { [reminders |-> << RentalReminder(DispatchStore, 2, 0) >>,
                   notifications |-> << >>],
                  [reminders |-> << RentalReminder(DispatchStore, 2, 0),
                                    RentalReminder(DispatchStore, 1, 0) >>,
                   notifications |-> << >>],
                  [reminders |-> << RentalReminder(DispatchStore, 2, 0),
                                    RentalReminder(DispatchStore, 1, 0) >>,
                   notifications |-> << Notification(2, "u1", FALSE, TRUE) >>] } :
         /\ reminders = s.reminders
         /\ notifications = s.notifications
         /\ calibrations = << >>
         /\ client = Provider
         /\ customers = << >>

\* Sweeps that overlap freely.
SweepNext == Tick \/ \E w \in Sweepers : SweepStep(w)

SweepSpec == DispatchInit /\ [][SweepNext]_vars

\* Every client keeps polling, so every sweep that can take a step does.
FairSweepSpec == SweepSpec /\ \A w \in Sweepers : WF_vars(SweepStep(w))

\* Sweeps one after the other: a sweep starts when no other is under way.
SeqSweepNext ==
    \/ Tick
    \/ \E w \in Sweepers :
         \/ SweepStart(w) /\ \A v \in Sweepers \ {w} : req[v].pc = "idle"
         \/ SweepCheck(w) \/ SweepCreate(w) \/ SweepMark(w) \/ SweepEnd(w)

SeqSweepSpec == DispatchInit /\ [][SeqSweepNext]_vars

\* Sweeps and reminder calls, all interleaved.
DispatchNext ==
    \/ Tick
    \/ \E w \in Sweepers : SweepStep(w)
    \/ \E t \in Tasks : TaskStep(t)

DispatchSpec == DispatchInit /\ [][DispatchNext]_vars

\* ------------------------------------------------- scheduling alone
\* The reminder calls of approvals, for a rental 1 whose endDate may be
\* ahead, near, or already past when the approval comes.
EndDates == 1..(MaxTime + LeadTime)

ScheduleInit ==
    /\ items = DispatchStore.items
    /\ \E endDate \in EndDates :
         rentals = [DispatchStore.rentals EXCEPT ![1].endDate = endDate]
    /\ statusLogs = DispatchStore.statusLogs
    /\ itemHistory = DispatchStore.itemHistory
    /\ activityLogs = DispatchStore.activityLogs
    /\ now = 0
    /\ req = [t \in Tasks |-> WorkerIdle]
    /\ reminders = << >>
    /\ notifications = << >>
    /\ calibrations = << >>
    /\ client = Provider
    /\ customers = << >>

ScheduleNext == Tick \/ \E t \in Tasks : TaskStep(t)

ScheduleSpec == ScheduleInit /\ [][ScheduleNext]_vars

\* ----------------------------------------------- sweeps with failures
\* A store access of the dispatch of one reminder throws: the look for an
\* unread notification, the insert, or the update to SENT.  The sweep's
\* per-reminder catch logs it and the loop goes on with the next reminder.
SweepFail(w) ==
    /\ \/ req[w].pc = "next" /\ req[w].due # << >>
       \/ req[w].pc \in {"write", "mark"}
    /\ req' = [req EXCEPT ![w] =
                 [@ EXCEPT !.pc = "next", !.due = Tail(@),
                           !.cur = Head(req[w].due), !.failed = @ + 1]]
    /\ UNCHANGED <<client, store, svc, now>>

\* Both rentals end soon, so one sweep has two reminders to dispatch.
FaultyStore == [DispatchStore EXCEPT !.rentals[2].endDate = NearDate]

FaultyInit ==
    /\ items = FaultyStore.items
    /\ rentals = FaultyStore.rentals
    /\ statusLogs = FaultyStore.statusLogs
    /\ itemHistory = FaultyStore.itemHistory
    /\ activityLogs = FaultyStore.activityLogs
    /\ now = 0
    /\ req = [w \in Sweepers |-> WorkerIdle]
    /\ reminders = << RentalReminder(FaultyStore, 2, 0),
                      RentalReminder(FaultyStore, 1, 0) >>
    /\ notifications \in { << >>, << Notification(2, "u1", FALSE, TRUE) >> }
    /\ calibrations = << >>
    /\ client = Provider
    /\ customers = << >>

FaultySweepNext ==
    \/ Tick
    \/ \E w \in Sweepers : SweepStep(w) \/ SweepFail(w)

FaultySweepSpec == FaultyInit /\ [][FaultySweepNext]_vars

\* ============================================================= inbox
\* The user notifications route and the acknowledgement of a reminder, run
\* beside the sweeps.  Each request is one store statement, hence one step.
Users   == {"u1", "u2"}
Clients == {"c1"}

ClientIdle == [pc |-> "idle", op |-> NULL, caller |-> NULL, res |-> NULL,
               count |-> 0, overdue |-> {}]

\* markAllNotificationsAsRead: updateMany on the user's rows.
markAllNotificationsAsRead(ns, userId) ==
    [i \in DOMAIN ns |-> IF ns[i].userId = userId
                         THEN [ns[i] EXCEPT !.isRead = TRUE] ELSE ns[i]]

\* A delete of all the user's rows, read or not.
deleteAllNotificationsOfUser(ns, userId) ==
    SelectSeq(ns, LAMBDA n : n.userId # userId)

\* deleteAllReadNotifications: deleteMany on the user's read rows.
deleteAllReadNotifications(ns, userId) ==
    SelectSeq(ns, LAMBDA n : ~(n.userId = userId /\ n.isRead))

getUnreadNotificationCount(ns, userId) ==
    Cardinality({i \in DOMAIN ns : ns[i].userId = userId /\ ~ns[i].isRead})

\* The user's notifications of reminders past their dueDate and not
\* acknowledged.
getOverdueNotifications(rs, ns, userId, t) ==
    {i \in DOMAIN ns : /\ ns[i].userId = userId
                       /\ ns[i].reminderId \in DOMAIN rs
                       /\ rs[ns[i].reminderId].dueDate < t
                       /\ rs[ns[i].reminderId].status # "ACKNOWLEDGED"}

\* POST /api/notifications { action }.
NotificationsPost(c) ==
    /\ \E caller \in Users \cup {NULL},
          action \in {"markAllRead", "deleteAllRead", "other"},
          thrown \in BOOLEAN :
         LET r == [ClientIdle EXCEPT !.pc = "done", !.op = action,
                                     !.caller = caller] IN
         IF caller = NULL
         THEN /\ req' = [req EXCEPT ![c] = [r EXCEPT !.res = "401"]]
              /\ UNCHANGED notifications
         ELSE IF action = "other"
         THEN /\ req' = [req EXCEPT ![c] = [r EXCEPT !.res = "400"]]
              /\ UNCHANGED notifications
         ELSE IF thrown
         THEN /\ req' = [req EXCEPT ![c] = [r EXCEPT !.res = "500"]]
              /\ UNCHANGED notifications
         ELSE /\ req' = [req EXCEPT ![c] = [r EXCEPT !.res = "200"]]
              /\ notifications' =
                   IF action = "markAllRead"
                   THEN markAllNotificationsAsRead(notifications, caller)
                   ELSE deleteAllReadNotifications(notifications, caller)
    /\ UNCHANGED <<client, store, reminders, now>>

\* What a query of the route leaves in the two tables.
QueryMarksSent(s) ==
    [s EXCEPT !.reminders =
        [i \in DOMAIN @ |-> IF @[i].status = "PENDING"
                            THEN [@[i] EXCEPT !.status = "SENT"] ELSE @[i]]]

QueryEffect(s) == s

\* GET /api/notifications?countOnly=true | ?overdueOnly=true.
NotificationsGet(c) ==
    /\ \E caller \in Users \cup {NULL}, mode \in {"countOnly", "overdueOnly"} :
         LET r == [ClientIdle EXCEPT !.pc = "done", !.op = mode,
                                     !.caller = caller] IN
         IF caller = NULL
         THEN req' = [req EXCEPT ![c] = [r EXCEPT !.res = "401"]]
         ELSE req' = [req EXCEPT ![c] =
                 [r EXCEPT !.res = "200",
                           !.count = IF mode = "countOnly"
                                     THEN getUnreadNotificationCount(
                                              notifications, caller)
                                     ELSE 0,
                           !.overdue = IF mode = "overdueOnly"
                                       THEN getOverdueNotifications(
                                                reminders, notifications,
                                                caller, now)
                                       ELSE {}]]
    /\ reminders' = QueryEffect(SVC).reminders
    /\ notifications' = QueryEffect(SVC).notifications
    /\ UNCHANGED <<client, store, now>>

\* The user acts on a reminder that was sent to them.
Acknowledge(c) ==
    /\ \E i \in DOMAIN reminders :
         /\ reminders[i].status = "SENT"
         /\ reminders' = [reminders EXCEPT ![i].status = "ACKNOWLEDGED"]
         /\ req' = [req EXCEPT ![c] =
                      [ClientIdle EXCEPT !.pc = "done", !.op = "acknowledge",
                                         !.caller = reminders[i].userId,
                                         !.res = "200"]]
    /\ UNCHANGED <<client, store, notifications, now>>

\* Rental 1 ends at the lead time, so that its reminder is due at once and
\* overdue soon after.
InboxStore == [DispatchStore EXCEPT !.rentals[1].endDate = LeadTime]

\* Rental 2's owner has a notification of their own, read or not; rental 1's
\* owner has the instant path's unread notification, or none yet.
InboxInit ==
    /\ items = InboxStore.items
    /\ rentals = InboxStore.rentals
    /\ statusLogs = InboxStore.statusLogs
    /\ itemHistory = InboxStore.itemHistory
    /\ activityLogs = InboxStore.activityLogs
    /\ now = 0
    /\ req = [w \in Sweepers \cup Clients |->
                IF w \in Sweepers THEN WorkerIdle ELSE ClientIdle]
    /\ reminders = << RentalReminder(InboxStore, 2, 0),
                      RentalReminder(InboxStore, 1, 0) >>
    /\ \E mine \in { << >>, << Notification(2, "u1", FALSE, TRUE) >> },
          read \in BOOLEAN :
         notifications = << Notification(1, "u2", read, TRUE) >> \o mine
    /\ calibrations = << >>
    /\ client = Provider
    /\ customers = << >>

InboxNext ==
    \/ Tick
    \/ \E w \in Sweepers : SweepStep(w)
    \/ \E c \in Clients : \/ NotificationsPost(c)
                          \/ NotificationsGet(c)
                          \/ Acknowledge(c)

InboxSpec == InboxInit /\ [][InboxNext]_vars

\* Every client keeps polling, so every sweep that can take a step does.
FairInboxSpec == InboxSpec /\ \A w \in Sweepers : WF_vars(SweepStep(w))

\* ================================================ calibration certificate
\* GET of the certificate route: authenticate, findUnique, then the checks in
\* the route's order. Two viewers ask side by side.
CalIds      == {"cal-1", "cal-2"}
MissingId   == "cal-0"                 \* an id no calibration has
Viewers     == {"v1", "v2"}
CertCallers == Users \cup {"admin", NULL}
CalStatuses == {"PENDING", "COMPLETED"}

Calibration(userId, status, certificate) ==
    [userId |-> userId, status |-> status, certificate |-> certificate]

\* What findUnique returns for an id without a row.
NoCalibration == Calibration(NULL, NULL, FALSE)

CalibrationRows ==
    { Calibration(u, s, c) : u \in Users, s \in CalStatuses, c \in BOOLEAN }

ViewerIdle == [pc |-> "idle", caller |-> NULL, id |-> NULL,
               cur |-> NoCalibration, res |-> NULL, pdf |-> FALSE]

CertStart(v) ==
    /\ req[v].pc \in {"idle", "done"}
    /\ \E caller \in CertCallers, id \in CalIds \cup {MissingId} :
         req' = [req EXCEPT ![v] =
                   IF caller = NULL
                   THEN [ViewerIdle EXCEPT !.pc = "done", !.id = id, !.res = "401"]
                   ELSE [ViewerIdle EXCEPT !.pc = "find", !.caller = caller,
                                           !.id = id]]
    /\ UNCHANGED <<client, store, svc, now>>

CertFind(v) ==
    /\ req[v].pc = "find"
    /\ \E thrown \in BOOLEAN :
         req' = [req EXCEPT ![v] =
                   IF thrown
                   THEN [@ EXCEPT !.pc = "done", !.res = "500"]
                   ELSE [@ EXCEPT !.pc = "check",
                                  !.cur = IF req[v].id \in DOMAIN calibrations
                                          THEN calibrations[req[v].id]
                                          ELSE NoCalibration]]
    /\ UNCHANGED <<client, store, svc, now>>

\* The checks without the one on ownership.
CertResponseNoOwnerCheck(caller, cur) ==
    IF cur = NoCalibration THEN "404"
    ELSE IF cur.status # "COMPLETED" THEN "400"
    ELSE IF ~cur.certificate THEN "400"
    ELSE "200"

\* The response of the route for what it read, checks in the route's order.
CertResponse(caller, cur) ==
    LET isOwner == cur.userId = caller
        isAdmin == caller = "admin"
    IN  IF cur = NoCalibration THEN "404"
        ELSE IF ~isOwner /\ ~isAdmin THEN "403"
        ELSE IF cur.status # "COMPLETED" THEN "400"
        ELSE IF ~cur.certificate THEN "400"
        ELSE "200"

CertRespond(v) ==
    /\ req[v].pc = "check"
    /\ \E thrown \in BOOLEAN :
         LET res == CertResponse(req[v].caller, req[v].cur) IN
         req' = [req EXCEPT ![v] =
                   IF thrown /\ res = "200"
                   THEN [@ EXCEPT !.pc = "done", !.res = "500"]
                   ELSE [@ EXCEPT !.pc = "done", !.res = res,
                                  !.pdf = (res = "200")]]
    /\ UNCHANGED <<client, store, svc, now>>

CertInit ==
    /\ items = DispatchStore.items
    /\ rentals = DispatchStore.rentals
    /\ statusLogs = DispatchStore.statusLogs
    /\ itemHistory = DispatchStore.itemHistory
    /\ activityLogs = DispatchStore.activityLogs
    /\ now = 0
    /\ req = [v \in Viewers |-> ViewerIdle]
    /\ reminders = << >>
    /\ notifications = << >>
    /\ \E ids \in SUBSET CalIds : calibrations \in [ids -> CalibrationRows]
    /\ client = Provider
    /\ customers = << >>

CertNext == \E v \in Viewers : CertStart(v) \/ CertFind(v) \/ CertRespond(v)

CertSpec == CertInit /\ [][CertNext]_vars

\* ==================================================== notification client
\* The NotificationProvider of the browser. The server is what its responses
\* are: a status and, for the list, one of a few inboxes. One tick of the
\* clock is one second.
NotifIds  == {"n1", "n2", "n3", "n4"}
Calls     == {"k1", "k2"}          \* invocations that can be in flight at once
MaxToasts == 3                     \* toasts admitted until the counter resets
SoundGap  == 5                     \* seconds between two sounds

\* A notification as the API returns it, its reminder's dueDate joined.
ClientNotification(id, isRead, dueDate) ==
    [id |-> id, isRead |-> isRead, dueDate |-> dueDate]

DueOf(id) == CASE id = "n1" -> 3 [] id = "n2" -> 1 [] id = "n3" -> 2
               [] OTHER -> 4

Inbox(ids, read) ==
    [i \in DOMAIN ids |-> ClientNotification(ids[i], ids[i] \in read, DueOf(ids[i]))]

Inboxes ==
    { Inbox(<< >>, {}),
      Inbox(<<"n1", "n2">>, {}),
      Inbox(<<"n1", "n2", "n3", "n4">>, {}),
      Inbox(<<"n1", "n2", "n3", "n4">>, {"n1", "n2", "n3"}) }

CallIdle == [pc |-> "idle", op |-> NULL, showToast |-> FALSE, sent |-> FALSE,
             res |-> NULL]

Unread(ns) == SelectSeq(ns, LAMBDA n : ~n.isRead)

\* Array.prototype.sort with the comparator of _internalFetch: by dueDate,
\* ties in the order of the list.
RECURSIVE SortByDue(_)
SortByDue(ns) ==
    IF ns = << >> THEN << >>
    ELSE LET first == CHOOSE i \in DOMAIN ns :
                        \A j \in DOMAIN ns :
                            \/ ns[i].dueDate < ns[j].dueDate
                            \/ ns[i].dueDate = ns[j].dueDate /\ i <= j
         IN  << ns[first] >>
             \o SortByDue([j \in 1..(Len(ns) - 1) |->
                             IF j < first THEN ns[j] ELSE ns[j + 1]])

\* prioritizedNotifications.slice(0, 3)
ToShow(ns) ==
    LET sorted == SortByDue(Unread(ns)) IN
    SubSeq(sorted, 1, IF Len(sorted) < MaxToasts THEN Len(sorted) ELSE MaxToasts)

\* _internalFetch once its response is there, at time t.
InternalFetch(c, outcome, inbox, showToast, t) ==
    CASE outcome = "401" ->
           [c EXCEPT !.notifications = << >>, !.unreadCount = 0]
      [] outcome = "error" -> c
      [] OTHER ->
           [c EXCEPT
              !.timers = IF showToast
                         THEN @ \cup { [n |-> ToShow(inbox)[i], at |-> t + (i - 1)] :
                                         i \in DOMAIN ToShow(inbox) }
                         ELSE @,
              !.notifications = inbox,
              !.unreadCount = Len(Unread(inbox))]

\* A finally block that is skipped on the early return for 401.
FinallyUnless401(c, outcome) ==
    IF outcome = "401" THEN c ELSE [c EXCEPT !.isFetching = FALSE]

\* The finally block of fetchNotifications and triggerCronCheck.
Finally(c, outcome) == [c EXCEPT !.isFetching = FALSE]

\* A call of fetchNotifications or triggerCronCheck, up to its first await.
Call(k, op, pc) ==
    /\ req[k].pc \in {"idle", "done"}
    /\ client.calls < MaxOps
    /\ \E showToast \in BOOLEAN :
         IF client.isFetching
         THEN /\ req' = [req EXCEPT ![k] =
                           [CallIdle EXCEPT !.pc = "done", !.op = op,
                                            !.res = "skipped"]]
              /\ client' = [client EXCEPT !.calls = @ + 1]
         ELSE /\ client' = [client EXCEPT !.isFetching = TRUE, !.calls = @ + 1]
              /\ req' = [req EXCEPT ![k] =
                           [CallIdle EXCEPT !.pc = pc, !.op = op, !.sent = TRUE,
                                            !.showToast = showToast]]
    /\ UNCHANGED <<store, svc, now>>

fetchNotifications(k) == Call(k, "fetchNotifications", "fetch")

triggerCronCheck(k) == Call(k, "triggerCronCheck", "cron")

\* The response of /api/cron/reminders: 401 and a failure leave through the
\* finally block, a success goes on to _internalFetch.
CronResponse(k) ==
    /\ req[k].pc = "cron"
    /\ \E outcome \in {"401", "error", "ok"}, created \in 0..1 :
         IF outcome = "ok"
         THEN /\ req' = [req EXCEPT ![k] =
                           [@ EXCEPT !.pc = "fetch",
                                     !.showToast = @ /\ created > 0]]
              /\ UNCHANGED client
         ELSE /\ req' = [req EXCEPT ![k] =
                           [@ EXCEPT !.pc = "done", !.res = outcome]]
              /\ client' = Finally(client, outcome)
    /\ UNCHANGED <<store, svc, now>>

\* The response of the list request, the rest of _internalFetch and the
\* caller's finally block.
FetchResponse(k) ==
    /\ req[k].pc = "fetch"
    /\ \E outcome \in {"401", "error", "ok"}, inbox \in Inboxes :
         /\ client' = Finally(InternalFetch(client, outcome, inbox,
                                            req[k].showToast, now), outcome)
         /\ req' = [req EXCEPT ![k] = [@ EXCEPT !.pc = "done", !.res = outcome]]
    /\ UNCHANGED <<store, svc, now>>

\* The rate limit of playSoundAndShowToast at time t.
TooSoon(c, t) ==
    /\ c.lastSoundPlayedTime # NoSound
    /\ t - c.lastSoundPlayedTime < SoundGap

\* playSoundAndShowToast up to audio.play(); canShow is the answer of
\* canShowNotification.
playSoundAndShowToast(c, n, canShow, t) ==
    IF \/ n.id \in c.processedNotifications
       \/ n.isRead
       \/ ~canShow
       \/ c.toastShownCount >= MaxToasts
       \/ TooSoon(c, t)
    THEN c
    ELSE [c EXCEPT !.processedNotifications = @ \cup {n.id},
                   !.toastShownCount = @ + 1,
                   !.playing = @ \cup { [n |-> n, at |-> t] }]

\* A setTimeout callback of _internalFetch runs; answers is what
\* canShowNotification may say.
TimerFiresWith(answers) ==
    /\ \E tm \in client.timers, canShow \in answers :
         /\ tm.at <= now
         /\ client' = playSoundAndShowToast(
                         [client EXCEPT !.timers = @ \ {tm}], tm.n, canShow, now)
    /\ UNCHANGED <<store, svc, now, req>>

TimerFires == TimerFiresWith(BOOLEAN)

\* The promise of audio.play() settles: then() shows the toast, catch() logs;
\* outcomes is how it may settle.
PlaySettlesWith(outcomes) ==
    /\ \E pl \in client.playing, played \in outcomes :
         client' = IF played
                   THEN [client EXCEPT !.playing = @ \ {pl},
                                       !.lastSoundPlayedTime = pl.at,
                                       !.toasts = Append(@, pl.n)]
                   ELSE [client EXCEPT !.playing = @ \ {pl}]
    /\ UNCHANGED <<store, svc, now, req>>

PlaySettles == PlaySettlesWith(BOOLEAN)

\* The one timer of the reset effect runs, a minute after the mount.
resetToastCount ==
    /\ ~client.resetDone
    /\ client' = [client EXCEPT !.toastShownCount = 0, !.resetDone = TRUE,
                                !.toastsAtReset = Len(client.toasts)]
    /\ UNCHANGED <<store, svc, now, req>>

\* A second passes; a timer that is due runs first.
ClientTick ==
    /\ now < MaxTime
    /\ \A tm \in client.timers : tm.at > now
    /\ now' = now + 1
    /\ UNCHANGED <<store, svc, req, client>>

\* markAsRead, markAllAsRead, deleteNotification and deleteAllRead once the
\* response is there; a response that is not ok changes nothing.
MarkedAsRead(c, id) ==
    [c EXCEPT !.notifications =
                 [i \in DOMAIN @ |-> IF @[i].id = id
                                     THEN [@[i] EXCEPT !.isRead = TRUE] ELSE @[i]],
              !.unreadCount = Max(0, @ - 1)]

MarkedAllAsRead(c) ==
    [c EXCEPT !.notifications = [i \in DOMAIN @ |-> [@[i] EXCEPT !.isRead = TRUE]],
              !.unreadCount = 0]

DeletedNotification(c, id) ==
    LET wasUnread == \E i \in DOMAIN c.notifications :
                        c.notifications[i].id = id /\ ~c.notifications[i].isRead
    IN  [c EXCEPT !.notifications = SelectSeq(@, LAMBDA n : n.id # id),
                  !.unreadCount = IF wasUnread THEN Max(0, @ - 1) ELSE @]

DeletedAllRead(c) ==
    [c EXCEPT !.notifications = SelectSeq(@, LAMBDA n : ~n.isRead)]

UserAction ==
    /\ \E ok \in BOOLEAN, id \in NotifIds,
          op \in {"markAsRead", "markAllAsRead", "deleteNotification",
                  "deleteAllRead"} :
         client' = IF ~ok THEN client
                   ELSE CASE op = "markAsRead" -> MarkedAsRead(client, id)
                          [] op = "markAllAsRead" -> MarkedAllAsRead(client)
                          [] op = "deleteNotification" ->
                               DeletedNotification(client, id)
                          [] OTHER -> DeletedAllRead(client)
    /\ UNCHANGED <<store, svc, now, req>>

ClientInit ==
    /\ items = DispatchStore.items
    /\ rentals = DispatchStore.rentals
    /\ statusLogs = DispatchStore.statusLogs
    /\ itemHistory = DispatchStore.itemHistory
    /\ activityLogs = DispatchStore.activityLogs
    /\ calibrations = << >>
    /\ reminders = << >>
    /\ notifications = << >>
    /\ now = 0
    /\ req = [k \in Calls |-> CallIdle]
    /\ client = Provider
    /\ customers = << >>

CallStep(k) ==
    \/ fetchNotifications(k)
    \/ triggerCronCheck(k)
    \/ CronResponse(k)
    \/ FetchResponse(k)

\* The lock: calls and their responses.
LockNext == \E k \in Calls : CallStep(k)

LockSpec == ClientInit /\ [][LockNext]_vars

\* Every request of the browser is answered or fails.
FairLockSpec ==
    LockSpec /\ \A k \in Calls : WF_vars(CronResponse(k) \/ FetchResponse(k))

\* The list and its counter: fetches and the user's actions.
CountNext ==
    \/ \E k \in Calls : CallStep(k)
    \/ UserAction

CountSpec == ClientInit /\ [][CountNext]_vars

\* Toasts: fetches, their timers, the sound and the counter's reset.
ToastNext ==
    \/ \E k \in Calls : CallStep(k)
    \/ TimerFires
    \/ PlaySettles
    \/ resetToastCount
    \/ ClientTick

ToastSpec == ClientInit /\ [][ToastNext]_vars

\* Toasts when the tracker lets every notification through and every sound
\* plays.
SoundNext ==
    \/ \E k \in Calls : CallStep(k)
    \/ TimerFiresWith({TRUE})
    \/ PlaySettlesWith({TRUE})
    \/ ClientTick

SoundSpec == ClientInit /\ [][SoundNext]_vars

\* ========================================================= customers page
\* The admin customers page and its sessionStorage cache, for one cache key.
\* One tick of the clock is one minute here.
Fetchers       == {"f1", "f2"}     \* list fetches that can be in flight at once
Editors        == {"e1"}           \* the modal's submit handler
Agents         == Fetchers \cup Editors
CustomerNames  == {"PT A", "PT B"}
CACHE_DURATION == 1

NoCache == [set |-> FALSE, data |-> << >>, timestamp |-> 0]

\* The page as it is mounted.
CustomersPage == [cache |-> NoCache, customers |-> << >>]

AgentIdle == [pc |-> "idle", op |-> NULL, data |-> << >>, timestamp |-> 0,
              res |-> NULL]

CacheIsFresh(c, t) == c.set /\ t - c.timestamp < CACHE_DURATION

invalidateCache(page) == [page EXCEPT !.cache = NoCache]

\* fetchcustomers up to its await: the list is taken from the cache, or the
\* GET is sent; r is the caller's record.
fetchcustomers(a, r) ==
    IF CacheIsFresh(client.cache, now)
    THEN /\ client' = [client EXCEPT !.customers = client.cache.data]
         /\ req' = [req EXCEPT ![a] =
                      [r EXCEPT !.pc = "done", !.res = "cache",
                                !.data = client.cache.data]]
    ELSE /\ req' = [req EXCEPT ![a] =
                      [r EXCEPT !.pc = "get", !.timestamp = now]]
         /\ UNCHANGED client

\* The effect, a page or limit change, or the search calls fetchcustomers.
FetchList(f) ==
    /\ req[f].pc \in {"idle", "done"}
    /\ fetchcustomers(f, [AgentIdle EXCEPT !.op = "fetch"])
    /\ UNCHANGED <<store, svc, now>>

\* GET /api/customers reads the table, or fails.
CustomersGet(a) ==
    /\ req[a].pc = "get"
    /\ \E ok \in BOOLEAN :
         req' = [req EXCEPT ![a] =
                   IF ok THEN [@ EXCEPT !.pc = "list", !.data = customers]
                   ELSE [@ EXCEPT !.pc = "done", !.res = "error"]]
    /\ UNCHANGED <<store, svc, now, client>>

\* The list arrives: it is cached under the time the fetch began, and shown.
CustomersListed(a) ==
    /\ req[a].pc = "list"
    /\ client' = [client EXCEPT
                    !.cache = [set |-> TRUE, data |-> req[a].data,
                               timestamp |-> req[a].timestamp],
                    !.customers = req[a].data]
    /\ req' = [req EXCEPT ![a] = [@ EXCEPT !.pc = "done", !.res = "server"]]
    /\ UNCHANGED <<store, svc, now>>

\* handleAddSubmit, handleEditSubmit, handleDeleteSubmit send their request.
Submit(e) ==
    /\ req[e].pc \in {"idle", "done"}
    /\ \E op \in {"add", "edit", "delete"} :
         req' = [req EXCEPT ![e] = [AgentIdle EXCEPT !.pc = "sent", !.op = op]]
    /\ UNCHANGED <<store, svc, now, client>>

\* The table after POST, PUT or DELETE of /api/customers for customer "c1".
Written(table, op, name) ==
    CASE op = "add"    -> ("c1" :> name) @@ table
      [] op = "edit"   -> [id \in DOMAIN table |-> name]
      [] OTHER         -> [id \in DOMAIN table \ {"c1"} |-> table[id]]

\* The server handles the request: res.ok with the table changed, or not ok.
CustomersWrite(e) ==
    /\ req[e].pc = "sent"
    /\ \E name \in CustomerNames :
         LET table == Written(customers, req[e].op, name) IN
         IF table # customers
         THEN /\ customers' = table
              /\ req' = [req EXCEPT ![e] = [@ EXCEPT !.pc = "written"]]
         ELSE /\ req' = [req EXCEPT ![e] =
                           [@ EXCEPT !.pc = "done", !.res = "error"]]
              /\ UNCHANGED customers
    /\ UNCHANGED <<items, rentals, statusLogs, itemHistory, activityLogs,
                   calibrations, svc, now, client>>

\* The success branch of the submit handlers: invalidateCache, then
\* fetchcustomers at once, or from a setTimeout after a delete.
Submitted(e) ==
    /\ req[e].pc = "written"
    /\ IF req[e].op = "delete"
       THEN /\ client' = [invalidateCache(client) EXCEPT
                            !.customers = [id \in DOMAIN @ \ {"c1"} |-> @[id]]]
            /\ req' = [req EXCEPT ![e] = [@ EXCEPT !.pc = "timer"]]
       ELSE /\ client' = invalidateCache(client)
            /\ req' = [req EXCEPT ![e] =
                         [@ EXCEPT !.pc = "get", !.timestamp = now]]
    /\ UNCHANGED <<store, svc, now>>

\* The setTimeout callback of handleDeleteSubmit.
RefreshAfterDelete(e) ==
    /\ req[e].pc = "timer"
    /\ fetchcustomers(e, req[e])
    /\ UNCHANGED <<store, svc, now>>

CacheInit ==
    /\ items = DispatchStore.items
    /\ rentals = DispatchStore.rentals
    /\ statusLogs = DispatchStore.statusLogs
    /\ itemHistory = DispatchStore.itemHistory
    /\ activityLogs = DispatchStore.activityLogs
    /\ calibrations = << >>
    /\ reminders = << >>
    /\ notifications = << >>
    /\ now = 0
    /\ req = [a \in Agents |-> AgentIdle]
    /\ client = CustomersPage
    /\ customers \in {<< >>} \cup [{"c1"} -> CustomerNames]

CacheNext ==
    \/ Tick
    \/ \E f \in Fetchers : FetchList(f)
    \/ \E a \in Agents : CustomersGet(a) \/ CustomersListed(a)
    \/ \E e \in Editors : Submit(e) \/ CustomersWrite(e) \/ Submitted(e)
                          \/ RefreshAfterDelete(e)

CacheSpec == CacheInit /\ [][CacheNext]_vars

\* =============================================================== claims
\* The step in which handler p's transaction ends, committed or rolled back.
TxStep(p)     == req[p].pc = "tx" /\ req'[p].pc # "tx"
Committing(p) == TxStep(p) /\ req'[p].res # "500"
RollingBack(p) == TxStep(p) /\ req'[p].res = "500"

\* p asks for a status change: both PATCH routes with a status, and DELETE.
StatusChange(p) ==
    /\ req[p].op \in {"PATCH", "PATCH_ID", "DELETE"}
    /\ req[p].status # NONE

\* p's transaction has committed.
Committed(p) ==
    \/ req[p].pc \in {"post", "bg"}
    \/ req[p].pc = "done" /\ req[p].res = "200"

Approves(p) ==
    /\ req[p].op \in {"PATCH", "PATCH_ID"}
    /\ req[p].status = "APPROVED"

OpenHistory(h, id) ==
    \E i \in DOMAIN h :
        h[i].action = "RENTED" /\ h[i].relatedId = id /\ h[i].endDate = NoDate

\* C1: of two concurrent APPROVE calls that both read the same record as
\* PENDING, at most one commits.
C1_OneApproveWins ==
    \A p, q \in Procs :
        ( /\ p # q
          /\ Approves(p) /\ Approves(q)
          /\ req[p].id = req[q].id
          /\ req[p].cur.status = "PENDING" /\ req[q].cur.status = "PENDING" )
        => ~(Committed(p) /\ Committed(q))

\* C2: once a record is COMPLETED, REJECTED or CANCELLED its status never
\* changes again.
C2_TerminalIsFinal ==
    [][\A id \in DOMAIN rentals :
          rentals[id].status \in Terminal
          => rentals'[id].status = rentals[id].status]_vars

\* C3: a status-change request from a non-terminal status whose (current,
\* target) pair is not in the legal table does not commit.
C3_IllegalPairFails ==
    [][\A p \in Procs :
          ( /\ TxStep(p) /\ StatusChange(p)
            /\ rentals[req[p].id].status \notin Terminal
            /\ <<rentals[req[p].id].status, req[p].status>> \notin Legal )
          => ~Committing(p)]_vars

\* C4: each item has at most one APPROVED rental.
C4_OneOpenRentalPerItem ==
    \A i \in Items :
        Cardinality({id \in DOMAIN rentals :
                        /\ rentals[id].itemSerial = i
                        /\ rentals[id].status = "APPROVED"}) <= 1

\* C5: a create request whose item is not AVAILABLE is answered "Item is not
\* available" and writes nothing; no create goes on to its transaction after
\* reading a status other than AVAILABLE.
C5_CreateNeedsAvailableItem ==
    [][\A p \in Procs :
          ( /\ req[p].pc \in {"idle", "done"}
            /\ req'[p] # req[p] /\ now' = now + 1
            /\ req'[p].op = "POST"
            /\ req'[p].itemSerial \in DOMAIN items
            /\ items[req'[p].itemSerial] # "AVAILABLE" )
          => /\ req'[p].pc = "done"
             /\ req'[p].res = "400 Item is not available for rental"
             /\ UNCHANGED store]_vars

C5_Witness ==
    \E p \in Procs :
        /\ req[p].pc = "done" /\ req[p].op = "POST"
        /\ req[p].res = "400 Item is not available for rental"
        /\ items[req[p].itemSerial] = "IN_CALIBRATION"

\* C6: a transaction that fails at any of its statements leaves the records,
\* the items, the status logs, the item history and the activity logs as they
\* were before the call.
C6_FailedTransactionWritesNothing ==
    [][\A p \in Procs : RollingBack(p) => UNCHANGED store]_vars

C6_Witness ==
    \E p \in Procs :
        /\ req[p].pc = "done" /\ req[p].res = "500"
        /\ req[p].op \in {"PATCH", "POST", "DELETE"}

\* C7: a committed PENDING -> APPROVED transition leaves the rental's item
\* RENTED and adds exactly one status-log row (APPROVED) and one activity-log
\* row, both for that rental.
C7_ApproveEffects ==
    [][\A p \in Procs :
          ( /\ Committing(p) /\ Approves(p)
            /\ rentals[req[p].id].status = "PENDING" )
          => /\ rentals'[req[p].id].status = "APPROVED"
             /\ items'[rentals[req[p].id].itemSerial] = "RENTED"
             /\ Len(statusLogs') = Len(statusLogs) + 1
             /\ SubSeq(statusLogs', 1, Len(statusLogs)) = statusLogs
             /\ statusLogs'[Len(statusLogs')].rentalId = req[p].id
             /\ statusLogs'[Len(statusLogs')].status = "APPROVED"
             /\ Len(activityLogs') = Len(activityLogs) + 1
             /\ SubSeq(activityLogs', 1, Len(activityLogs)) = activityLogs
             /\ activityLogs'[Len(activityLogs')].rentalId = req[p].id]_vars

C7_Witness ==
    \E p \in Procs :
        /\ req[p].pc = "post" /\ Approves(p)
        /\ req[p].cur.status = "PENDING" /\ now = 1
        /\ rentals[req[p].id].status = "APPROVED"
        /\ items[req[p].cur.itemSerial] = "RENTED"

\* C8: a committed APPROVED -> COMPLETED transition of a rental without
\* returnDate, by either status-update route, sets returnDate, makes the item
\* AVAILABLE and leaves no open RENTED ItemHistory row of that rental.
C8_CompleteEffects ==
    [][\A p \in Procs :
          ( /\ Committing(p)
            /\ req[p].op \in {"PATCH", "PATCH_ID"}
            /\ req[p].status = "COMPLETED"
            /\ rentals[req[p].id].status = "APPROVED"
            /\ rentals[req[p].id].returnDate = NoDate )
          => /\ rentals'[req[p].id].returnDate # NoDate
             /\ items'[rentals[req[p].id].itemSerial] = "AVAILABLE"
             /\ ~OpenHistory(itemHistory', req[p].id)]_vars

\* C9: a committed transition to CANCELLED, from PENDING or from APPROVED, by
\* any status-update route or by DELETE, leaves the rental's item AVAILABLE.
C9_CancelFreesItem ==
    [][\A p \in Procs :
          ( /\ Committing(p) /\ StatusChange(p)
            /\ req[p].status = "CANCELLED"
            /\ rentals[req[p].id].status \in {"PENDING", "APPROVED"} )
          => items'[rentals[req[p].id].itemSerial] = "AVAILABLE"]_vars

\* C10: a status-change request that the legal table rejects changes nothing
\* in the store.
C10_IllegalRequestMutatesNothing ==
    [][\A p \in Procs :
          ( /\ TxStep(p) /\ StatusChange(p)
            /\ <<rentals[req[p].id].status, req[p].status>> \notin Legal )
          => UNCHANGED store]_vars

\* s is a prefix of t: rows are only ever appended.
IsPrefix(s, t) == Len(s) <= Len(t) /\ SubSeq(t, 1, Len(s)) = s

\* The step in which handler p's post-commit reminder call ends by throwing.
NotifyFails(p) ==
    /\ req[p].pc \in {"post", "bg"}
    /\ req'[p].notified = "error"

\* C11: when the reminder/notification call that follows a committed approval
\* (or auto-approved creation) throws, what the transaction committed stays and
\* the operation is answered as successful.
C11_NotifyFailureIsSwallowed ==
    [][\A p \in Procs :
          NotifyFails(p)
          => /\ UNCHANGED <<items, rentals, statusLogs, itemHistory>>
             /\ IsPrefix(activityLogs, activityLogs')
             /\ rentals'[req[p].id].status = rentals[req[p].id].status
             /\ req'[p].res = "200"]_vars

C11_Witness ==
    \E p \in Procs :
        /\ req[p].op = "POST"
        /\ req[p].pc = "done"
        /\ req[p].notified = "error"
        /\ req[p].res = "200"
        /\ rentals[req[p].id].status = "APPROVED"
        /\ items[req[p].itemSerial] = "RENTED"

\* The statements handler p's transaction is about to run.
TxWrites(p) ==
    CASE req[p].op = "PATCH"    -> PatchWrites(req[p], now)
      [] req[p].op = "POST"     -> PostWrites(req[p], NewId(DB))
      [] req[p].op = "PATCH_ID" -> PatchIdWrites(req[p])
      [] req[p].op = "DELETE"   -> DeleteWrites(req[p])

StatusLogBeforeActivityLog(ws) ==
    \A i, j \in DOMAIN ws :
        (ws[i].k = "statusLog.create" /\ ws[j].k = "activityLog.create") => i < j

\* Handler p's post-commit code runs its reminder call in this step.
NotifyStep(p) ==
    /\ req[p].pc \in {"post", "bg"}
    /\ req'[p].pc = "done"

HasApprovedLog(logs, id) ==
    \E k \in DOMAIN logs : logs[k].rentalId = id /\ logs[k].status = "APPROVED"

\* C12: inside a transition the status-log insert comes before the
\* activity-log insert, both before the commit; reminders and notifications
\* are written only by a handler whose transaction has committed, so none
\* exists for an approval that was rolled back.
C12_RemindersOnlyAfterCommit ==
    [][ /\ \A p \in Procs :
             /\ req[p].pc = "tx" => StatusLogBeforeActivityLog(TxWrites(p))
             /\ TxStep(p) => UNCHANGED svc
        /\ svc' # svc => \E p \in Procs : /\ NotifyStep(p)
                                           /\ req[p].status \in {"APPROVED", NONE}
        /\ \A i \in DOMAIN reminders' :
             HasApprovedLog(statusLogs', reminders'[i].rentalId)
        /\ \A n \in DOMAIN notifications' :
             notifications'[n].reminderId \in DOMAIN reminders' \cup {NoReminder}
      ]_vars

\* An approval of rental 1 was rolled back and left no reminder, while the
\* committed creation of another rental has its reminder.
C12_Witness ==
    \E p, q \in Procs :
        /\ req[p].op \in {"PATCH", "PATCH_ID"} /\ req[p].status = "APPROVED"
        /\ req[p].pc = "done" /\ req[p].res = "500" /\ req[p].id = 1
        /\ req[p].notified = NULL
        /\ ~HasApprovedLog(statusLogs, 1)
        /\ FindReminder(reminders, "RENTAL", 1) = NoReminder
        /\ req[q].op = "POST" /\ req[q].notified = "ok"
        /\ FindReminder(reminders, "RENTAL", req[q].id) # NoReminder

\* The newest status-log row of rental id (0 when it has none).
NewestLog(logs, id) ==
    LET mine == {k \in DOMAIN logs : logs[k].rentalId = id}
    IN  IF mine = {} THEN 0 ELSE CHOOSE k \in mine : \A j \in mine : j <= k

\* p's transaction writes a status: a status change or an auto-approved create.
WritesStatus(p) == StatusChange(p) \/ req[p].op = "POST"

\* C13: status-log rows are only appended; a committed status change adds
\* exactly one row, carrying the new status; rows are never updated or
\* deleted; the newest row of a rental carries the rental's current status.
C13_StatusLogAppendOnly ==
    [][ /\ IsPrefix(statusLogs, statusLogs')
        /\ \A p \in Procs :
             (Committing(p) /\ WritesStatus(p))
             => /\ Len(statusLogs') = Len(statusLogs) + 1
                /\ statusLogs'[Len(statusLogs')].rentalId = req'[p].id
                /\ statusLogs'[Len(statusLogs')].status
                     = rentals'[req'[p].id].status
        /\ statusLogs' # statusLogs
             => \E p \in Procs : Committing(p) /\ WritesStatus(p)
        /\ \A id \in DOMAIN rentals' :
             /\ NewestLog(statusLogs', id) # 0
             /\ statusLogs'[NewestLog(statusLogs', id)].status
                  = rentals'[id].status
      ]_vars

\* Two status changes of rental 1 have committed after its first row.
C13_Witness ==
    /\ Len(statusLogs) >= 3
    /\ \A k \in DOMAIN statusLogs : statusLogs[k].rentalId = 1
    /\ statusLogs[Len(statusLogs)].status = "COMPLETED"
    /\ rentals[1].status = "COMPLETED"
    /\ \E p \in Procs : req[p].op = "DELETE" /\ req[p].res = "200"

\* The first step handler p takes after its transaction committed.
PostCommitStep(p) ==
    /\ req[p].pc = "post"
    /\ req'[p].pc # "post"

\* C14: a successful status transition inserts exactly one activity-log row,
\* whose affected user is the rental's owner: one row in the transaction and
\* none after it, whichever route performed the transition.
C14_OneActivityRowPerTransition ==
    [][\A p \in Procs :
          /\ (Committing(p) /\ StatusChange(p))
             => /\ Len(activityLogs') = Len(activityLogs) + 1
                /\ activityLogs'[Len(activityLogs')].affectedUserId
                     = rentals[req[p].id].userId
          /\ (PostCommitStep(p) /\ StatusChange(p))
             => UNCHANGED activityLogs]_vars

\* The rows a committed admin creation leaves for its new rental.
LogsOf(logs, id) == {k \in DOMAIN logs : logs[k].rentalId = id}
RemindersOf(rs, id) ==
    {i \in DOMAIN rs : rs[i].rentalId = id /\ rs[i].type = "RENTAL"}

\* C15: an admin creation for an AVAILABLE item commits, as one step, an
\* APPROVED rental, the item RENTED, exactly one status-log row (APPROVED) and
\* exactly one activity-log row (RENTAL_CREATED); after the commit its reminder
\* call creates the rental's RENTAL reminder when the rental has an endDate
\* (none otherwise; no second row when the rental already has one) and
\* creates one notification that plays a sound.
C15_AdminCreateEffects ==
    [][\A p \in Procs :
          /\ (Committing(p) /\ req[p].op = "POST")
             => LET id == req'[p].id IN
                /\ req[p].cur.itemStatus = "AVAILABLE"
                /\ id \notin DOMAIN rentals
                /\ rentals'[id].status = "APPROVED"
                /\ items'[req[p].itemSerial] = "RENTED"
                /\ statusLogs' = Append(statusLogs,
                                        RentalStatusLog(id, "APPROVED",
                                                        req[p].caller))
                /\ Len(activityLogs') = Len(activityLogs) + 1
                /\ activityLogs'[Len(activityLogs')].type = "RENTAL_CREATED"
                /\ activityLogs'[Len(activityLogs')].rentalId = id
                /\ Cardinality(LogsOf(statusLogs', id)) = 1
                /\ Cardinality(LogsOf(activityLogs', id)) = 1
                /\ UNCHANGED svc
          /\ (NotifyStep(p) /\ req[p].op = "POST" /\ req'[p].notified = "ok")
             => LET id == req[p].id IN
                /\ (RemindersOf(reminders', id) # {})
                     = (rentals[id].endDate # NoDate)
                /\ Len(reminders') - Len(reminders)
                     = IF /\ rentals[id].endDate # NoDate
                          /\ RemindersOf(reminders, id) = {}
                       THEN 1 ELSE 0
                /\ Len(notifications') = Len(notifications) + 1
                /\ IsPrefix(notifications, notifications')
                /\ notifications'[Len(notifications')].shouldPlaySound
                /\ ~notifications'[Len(notifications')].isRead
                /\ notifications'[Len(notifications')].reminderId
                     = FindReminder(reminders', "RENTAL", id)
                /\ UNCHANGED store]_vars

C15_Witness ==
    \E p \in Procs :
        /\ req[p].op = "POST" /\ req[p].pc = "done" /\ req[p].notified = "ok"
        /\ req[p].endDate # NoDate
        /\ rentals[req[p].id].status = "APPROVED"
        /\ items[req[p].itemSerial] = "RENTED"
        /\ Cardinality(RemindersOf(reminders, req[p].id)) = 1
        /\ UnreadOf(notifications,
                    FindReminder(reminders, "RENTAL", req[p].id)) # {}

\* The reminders of a record that have not been acknowledged.
ActiveReminders(rs, type, id) ==
    {i \in DOMAIN rs : /\ rs[i].type = type
                       /\ rs[i].rentalId = id
                       /\ rs[i].status # "ACKNOWLEDGED"}

\* C16: whatever reminder calls have run for a rental, from either approval
\* path, it has at most one reminder that is not ACKNOWLEDGED.
C16_OneActiveReminderPerRecord ==
    \A id \in DOMAIN rentals :
        Cardinality(ActiveReminders(reminders, "RENTAL", id)) <= 1

\* C17: sweeps run one after the other, nothing acknowledged in between,
\* leave at most one unread notification per reminder.
C17_SequentialSweepsOneUnread ==
    \A i \in DOMAIN reminders : Cardinality(UnreadOf(notifications, i)) <= 1

\* One sweep dispatched reminder 2 and ended; the next one, started after it,
\* is under way and finds nothing to do: the reminder is SENT and has its
\* single unread notification.
C17_Witness ==
    /\ req["s1"].pc = "idle" /\ req["s1"].cur = 2 /\ req["s1"].created = 1
    /\ req["s2"].pc = "next" /\ req["s2"].cur = NoReminder
    /\ reminders[2].status = "SENT"
    /\ Cardinality(UnreadOf(notifications, 2)) = 1

\* Unread notifications of a reminder by the path that created them: the
\* instant path's play a sound, the sweep's do not.
UnreadBy(ns, reminderId, sound) ==
    {n \in UnreadOf(ns, reminderId) : ns[n].shouldPlaySound = sound}

\* C18: the instant path and a sweep never both create an unread notification
\* for the same reminder.
C18_InstantAndSweepNeverBoth ==
    \A i \in DOMAIN reminders :
        ~( UnreadBy(notifications, i, TRUE) # {}
           /\ UnreadBy(notifications, i, FALSE) # {} )

\* C19: sweeps that overlap leave a reminder they dispatched SENT and never
\* leave more than two unread notifications for one reminder.
C19_OverlappingSweepsAtMostTwo ==
    /\ \A i \in DOMAIN reminders : Cardinality(UnreadOf(notifications, i)) <= 2
    /\ \A w \in Sweepers :
         (req[w].pc \in {"next", "idle"} /\ req[w].cur # NoReminder)
         => reminders[req[w].cur].status = "SENT"

\* Two sweeps overlapped on reminder 2 and each created a notification.
C19_Witness ==
    /\ \A w \in Sweepers : req[w].pc = "idle" /\ req[w].created = 1
    /\ reminders[2].status = "SENT"
    /\ Cardinality(UnreadOf(notifications, 2)) = 2

HasNotification(ns, reminderId) ==
    \E n \in DOMAIN ns : ns[n].reminderId = reminderId

\* C20: while sweeps keep running, a PENDING reminder whose reminderDate has
\* come eventually is SENT and has a notification; and a sweep never creates a
\* notification for a reminder whose reminderDate is still ahead.
C20_DueReminderIsDispatched ==
    /\ \A i \in RentalIds :
         (i \in DOMAIN reminders /\ IsDue(reminders[i], now))
         ~> ( /\ i \in DOMAIN reminders
              /\ reminders[i].status = "SENT"
              /\ HasNotification(notifications, i) )
    /\ [][ notifications' # notifications
           => LET made == notifications'[Len(notifications')].reminderId IN
              /\ Len(notifications') = Len(notifications) + 1
              /\ made \in DOMAIN reminders
              /\ reminders[made].reminderDate <= now ]_vars

\* The due reminder was dispatched by a sweep; the late one is untouched.
C20_Witness ==
    /\ Len(reminders) = 2
    /\ reminders[2].status = "SENT"
    /\ UnreadBy(notifications, 2, FALSE) # {}
    /\ reminders[1].status = "PENDING"
    /\ reminders[1].reminderDate > now
    /\ ~HasNotification(notifications, 1)

\* The reminder a step's new notification is tied to (NoReminder when the step
\* made none).
MadeFor ==
    IF Len(notifications') = Len(notifications) + 1
    THEN notifications'[Len(notifications')].reminderId
    ELSE NoReminder

\* C21: while sweeps keep running, a SENT reminder without an unread
\* notification gets a new one (unless it is acknowledged first); and no sweep
\* creates a notification for an ACKNOWLEDGED reminder.
C21_SentResurfacesUntilAcknowledged ==
    /\ \A i \in RentalIds :
         ( /\ i \in DOMAIN reminders
           /\ reminders[i].status = "SENT"
           /\ UnreadOf(notifications, i) = {} )
         ~> ( /\ i \in DOMAIN reminders
              /\ \/ UnreadOf(notifications, i) # {}
                 \/ reminders[i].status = "ACKNOWLEDGED" )
    /\ [][ (MadeFor \in DOMAIN reminders)
           => reminders[MadeFor].status # "ACKNOWLEDGED" ]_vars

\* The step in which a store access of sweep w's current dispatch throws.
SweepFails(w) == req'[w].failed = req[w].failed + 1

\* Sweep w's current dispatch has inserted its notification.
DispatchInserted(w) == req[w].pc = "mark" /\ ~req[w].unread

\* C22: a failure while a sweep dispatches one reminder does not stop the
\* sweep, which goes on with the rest of its list; the failed reminder keeps
\* its status and the failed dispatch has left no notification for it.
C22_SweepFailureIsIsolated ==
    [][\A w \in Sweepers :
          SweepFails(w)
          => /\ req'[w].pc = "next"
             /\ req'[w].due = Tail(req[w].due)
             /\ UNCHANGED reminders
             /\ ~DispatchInserted(w)]_vars

\* The moves of the reminder state machine.
ReminderMoves ==
    {<<"PENDING", "SENT">>, <<"SENT", "ACKNOWLEDGED">>}

\* C23: a reminder's status only moves PENDING -> SENT -> ACKNOWLEDGED; no
\* step takes it backwards and ACKNOWLEDGED is final.
C23_ReminderStatusOnlyAdvances ==
    [][\A i \in DOMAIN reminders :
          \/ reminders'[i].status = reminders[i].status
          \/ <<reminders[i].status, reminders'[i].status>> \in ReminderMoves
      ]_vars

\* C24: every reminder the scheduler wrote has reminderDate <= dueDate, also
\* when the lead time is floored at the current time.
C24_ReminderDateNotAfterDueDate ==
    \A i \in DOMAIN reminders : reminders[i].reminderDate <= reminders[i].dueDate

\* The step is a request of client c and of nobody else.
ClientStep(c) ==
    /\ now' = now
    /\ \A w \in Sweepers : req'[w] = req[w]

PostStep(c, action) ==
    /\ ClientStep(c)
    /\ req'[c].op = action
    /\ req'[c].res = "200"
    /\ UNCHANGED reminders

\* How many rows of ns equal x.
CountRows(ns, x) == Cardinality({i \in DOMAIN ns : ns[i] = x})

RowsOf(ns) == {ns[i] : i \in DOMAIN ns}

\* C25: deleteAllRead removes exactly the caller's read notifications and
\* markAllRead sets isRead on exactly the caller's notifications; every other
\* row is unchanged, and the same call made again changes nothing.
C25_ReadStateOperations ==
    [][\A c \in Clients :
          /\ PostStep(c, "deleteAllRead")
             => LET u == req'[c].caller IN
                /\ \A x \in RowsOf(notifications) :
                     CountRows(notifications', x)
                       = IF x.userId = u /\ x.isRead THEN 0
                         ELSE CountRows(notifications, x)
                /\ RowsOf(notifications') \subseteq RowsOf(notifications)
                /\ deleteAllReadNotifications(notifications', u)
                     = notifications'
          /\ PostStep(c, "markAllRead")
             => LET u == req'[c].caller IN
                /\ Len(notifications') = Len(notifications)
                /\ \A i \in DOMAIN notifications :
                     notifications'[i]
                       = IF notifications[i].userId = u
                         THEN [notifications[i] EXCEPT !.isRead = TRUE]
                         ELSE notifications[i]
                /\ markAllNotificationsAsRead(notifications', u)
                     = notifications'
      ]_vars

\* Rental 1's owner deleted their read notification: their unread one and
\* the other user's read one are still there.
C25_Witness ==
    /\ req["c1"].op = "deleteAllRead"
    /\ req["c1"].res = "200"
    /\ req["c1"].caller = "u1"
    /\ Len(notifications) = 2
    /\ \E i, j \in DOMAIN notifications :
         /\ notifications[i].userId = "u2" /\ notifications[i].isRead
         /\ notifications[j].userId = "u1" /\ ~notifications[j].isRead
                                           /\ ~notifications[j].shouldPlaySound

\* The step is a query of the notifications route by client c.
QueryStep(c) ==
    /\ ClientStep(c)
    /\ req'[c].op \in {"countOnly", "overdueOnly"}

NoRights(r) ==
    /\ r.caller \notin {NULL, "admin"}
    /\ r.id \in DOMAIN calibrations => calibrations[r.id].userId # r.caller

Answered(v) == req[v].pc = "done" /\ req[v].res # "500"

\* C27: two certificate requests of the same caller, who has no rights over
\* either calibration asked for, get the same response, whether or not the
\* calibration exists.
C27_ExistenceIsNotLeaked ==
    \A v, w \in Viewers :
        ( /\ Answered(v) /\ Answered(w)
          /\ req[v].caller = req[w].caller
          /\ NoRights(req[v]) /\ NoRights(req[w]) )
        => req[v].res = req[w].res

\* C28: a create, status change or cancel whose caller is not an authenticated
\* admin is answered 401 at once and changes no rental, item, status log,
\* activity log, history row, reminder or notification.
C28_NonAdminChangesNothing ==
    [][\A p \in Procs :
          (req'[p] # req[p] /\ req'[p].caller \in Callers \ {"admin"})
          => /\ req'[p].pc = "done"
             /\ req'[p].res = "401"
             /\ UNCHANGED <<store, svc>>]_vars

\* A cancel by a non-admin was refused while the rental it named is APPROVED.
C28_Witness ==
    \E p \in Procs :
        /\ req[p].op = "DELETE"
        /\ req[p].caller = "user"
        /\ req[p].res = "401"
        /\ 1 \in DOMAIN rentals
        /\ rentals[1].status = "APPROVED"
        /\ items[rentals[1].itemSerial] = "RENTED"

\* The affected-entity references a row has set; the rental routes never set
\* calibrationId or maintenanceId.
ReferencesSet(row) ==
    {f \in {"itemSerial", "affectedUserId", "customerId"} : row[f] # NULL}
    \cup (IF row.rentalId # 0 THEN {"rentalId"} ELSE {})

\* C29: every activity-log row has at most one of its affected-entity
\* references set.
C29_OneReferencePerActivityRow ==
    \A i \in DOMAIN activityLogs :
        Cardinality(ReferencesSet(activityLogs[i])) <= 1

\* C30: an item is RENTED exactly when some rental of that item is APPROVED;
\* in particular no item is AVAILABLE while a rental of it is APPROVED.
C30_RentedIffApprovedRental ==
    \A s \in Items :
        items[s] = "RENTED"
        <=> \E id \in DOMAIN rentals : /\ rentals[id].itemSerial = s
                                        /\ rentals[id].status = "APPROVED"

\* The store after a collection PATCH of rental id to status ran to its
\* response without a failure, started from store db at time t.
AfterPatch(db, id, status, t) ==
    LET r == [Idle EXCEPT !.op = "PATCH", !.caller = "admin", !.id = id,
                          !.status = status, !.cur = Found(db, id)]
    IN  Transaction(db, PatchWrites(r, t), 0)

\* The same for the PATCH of /rentals/[id], its logRentalActivity included.
AfterPatchId(db, id, status, t) ==
    LET cur == Found(db, id)
        r   == [Idle EXCEPT !.op = "PATCH_ID", !.caller = "admin", !.id = id,
                            !.status = status, !.cur = cur,
                            !.returnDate = PatchIdReturnDate(status, cur, t)]
    IN  logRentalActivity(Transaction(db, PatchIdWrites(r), 0), "admin",
                          "RENTAL_UPDATED", id, cur.itemSerial)

\* C31: from the same store and with the same target status the two status
\* updates leave the same rental status and returnDate, the same item
\* statuses, the same ItemHistory rows and as many status-log and
\* activity-log rows.
C31_PatchRoutesEquivalent ==
    \A id \in DOMAIN rentals, status \in RequestStatus :
        LET a == AfterPatch(DB, id, status, now)
            b == AfterPatchId(DB, id, status, now)
        IN  /\ a.rentals[id].status = b.rentals[id].status
            /\ a.rentals[id].returnDate = b.rentals[id].returnDate
            /\ a.items = b.items
            /\ a.itemHistory = b.itemHistory
            /\ Len(a.statusLogs) = Len(b.statusLogs)
            /\ Len(a.activityLogs) = Len(b.activityLogs)

\* The step in which a status update of handler p is answered with a failure.
FailureResponse(p) ==
    /\ req'[p] # req[p]
    /\ req'[p].op \in {"PATCH", "PATCH_ID"}
    /\ req'[p].pc = "done"
    /\ req'[p].res # "200"

\* C32: a status update that is answered with a failure has not committed:
\* the answer is not given from a position after the commit, and the step
\* that fails leaves rentals, items, status logs and activity logs as they
\* were.
C32_FailureMeansNotCommitted ==
    [][\A p \in Procs :
          FailureResponse(p)
          => /\ req[p].pc \notin {"post", "bg"}
             /\ UNCHANGED store]_vars

\* C33: a rental's returnDate is written at most once: once set it keeps its
\* value, whatever status updates follow or overlap.
C33_ReturnDateWrittenOnce ==
    [][\A id \in DOMAIN rentals :
          rentals[id].returnDate # NoDate
          => rentals'[id].returnDate = rentals[id].returnDate]_vars

\* The caller may see the certificate of calibration id, and there is one.
CertificateDue(caller, id) ==
    /\ id \in DOMAIN calibrations
    /\ caller = calibrations[id].userId \/ caller = "admin"
    /\ calibrations[id].status = "COMPLETED"
    /\ calibrations[id].certificate

\* C34: the certificate route sends a certificate only to the calibration's
\* owner or an admin, for a COMPLETED calibration that has a certificate
\* record; every other request is answered with an error and no certificate.
C34_CertificateOnlyWhenDue ==
    \A v \in Viewers :
        req[v].pc = "done"
        => /\ req[v].pdf <=> req[v].res = "200"
           /\ req[v].pdf => CertificateDue(req[v].caller, req[v].id)
           /\ ~CertificateDue(req[v].caller, req[v].id)
                => req[v].res \in {"401", "403", "404", "400", "500"}

\* The owner, who is no admin, got the certificate while the other viewer,
\* who does not own that calibration, was refused it.
C34_Witness ==
    /\ req["v1"].pc = "done"
    /\ req["v1"].pdf
    /\ req["v1"].caller = "u1"
    /\ calibrations[req["v1"].id].userId = "u1"
    /\ req["v2"].pc = "done"
    /\ req["v2"].id = req["v1"].id
    /\ req["v2"].caller = "u2"
    /\ req["v2"].res = "403"

InFlight == {k \in Calls : req[k].pc \in {"cron", "fetch"}}

\* C35: fetchNotifications and triggerCronCheck exclude each other through
\* isFetching: at most one call is in flight and the lock is held exactly
\* while one is; a call made while the lock is held ends at once without a
\* request; and the lock is released on every way out, so it never stays held.
C35_FetchLock ==
    /\ [](Cardinality(InFlight) <= 1)
    /\ [](client.isFetching <=> InFlight # {})
    /\ [][\A k \in Calls :
            (req'[k] # req[k] /\ req[k].pc \in {"idle", "done"}
             /\ client.isFetching)
            => /\ req'[k].pc = "done"
               /\ ~req'[k].sent
               /\ client'.isFetching]_vars
    /\ (client.isFetching ~> ~client.isFetching)

\* A poll is waiting for its list while a second call found the lock held
\* and ended without a request.
C35_Witness ==
    /\ req["k1"].op = "triggerCronCheck"
    /\ req["k1"].pc = "fetch"
    /\ client.isFetching
    /\ req["k2"].op = "fetchNotifications"
    /\ req["k2"].pc = "done"
    /\ req["k2"].res = "skipped"
    /\ ~req["k2"].sent

\* C36: unreadCount is the number of notifications of the local list that
\* are not read, after every completed fetch and user action.
C36_UnreadCountMatchesList ==
    client.unreadCount = Len(Unread(client.notifications))

\* The toasts shown since the counter was last reset, or since the mount.
ToastsSinceReset ==
    IF client.resetDone THEN Len(client.toasts) - client.toastsAtReset
    ELSE Len(client.toasts)

\* C37: no notification id gets a toast twice, no read notification gets a
\* toast, and at most 3 toasts are shown between two resets of the counter.
C37_ToastsAreLimited ==
    /\ \A i, j \in DOMAIN client.toasts :
         client.toasts[i].id = client.toasts[j].id => i = j
    /\ \A i \in DOMAIN client.toasts : ~client.toasts[i].isRead
    /\ ToastsSinceReset <= MaxToasts
    /\ client.toastsAtReset <= MaxToasts

ToastIds == {client.toasts[i].id : i \in DOMAIN client.toasts}

\* The session's first call fetched the list with showToast, and its timers
\* and sounds are all done.
FirstToastFetchSettled ==
    /\ client.calls = 1
    /\ \E k \in Calls : /\ req[k].pc = "done"
                        /\ req[k].res = "ok"
                        /\ req[k].showToast
    /\ client.timers = {}
    /\ client.playing = {}

\* C38: after a fetch with showToast, each of the up to 3 unread
\* notifications with the earliest due dates is shown as a toast, when none
\* was shown before and every sound plays.
C38_TopThreeAreShown ==
    FirstToastFetchSettled
    => \A i \in DOMAIN ToShow(client.notifications) :
          ToShow(client.notifications)[i].id \in ToastIds

\* The step in which a list fetch is answered from the cache.
ServedFromCache(a) ==
    /\ req'[a] # req[a]
    /\ req'[a].pc = "done"
    /\ req'[a].res = "cache"

\* No add, edit or delete is between its request and its success branch.
NoWriteInFlight == \A e \in Editors : req[e].pc \notin {"sent", "written"}

\* C39: once an add, edit or delete has succeeded, a list fetch answered from
\* the cache shows the table as it is since that change, never a list from
\* before it.
C39_CacheIsNeverStale ==
    [][\A a \in Agents :
          (ServedFromCache(a) /\ NoWriteInFlight)
          => req'[a].data = customers]_vars

====
